---- MODULE Spec2Model ----
(***************************************************************************)
(* goflexstore: the query-parameter model (package query) and its lowering *)
(* into GORM scopes (package gormquery).                                   *)
(*                                                                         *)
(* A caller constructs a ScopeBuilder and a query.Params, calls Build to   *)
(* obtain the ordered list of scope closures, and hands them to            *)
(* db.Scopes(...).Find, which runs the closures one after another on the   *)
(* statement and then executes the query.  A panic raised by a closure     *)
(* unwinds the whole call.                                                 *)
(***************************************************************************)
EXTENDS Integers, Sequences, FiniteSets, TLC

VARIABLES
    builder,    \* the *ScopeBuilder: FieldToColMap, Registry, CustomFilters
    params,     \* the query.Params handed to Build
    scopes,     \* the []ScopeFunc returned by Build
    idx,        \* how many scopes db.Scopes(...).Find has run so far
    tx,         \* the *gorm.DB statement the scopes mutate
    relTx,      \* the statement of each relation query Find ran for a preload, by name
    pc,         \* "ready" | "built" | "done" | "panicked" | "where" | "whereDone"
    panicVal,   \* the value of the panic that unwound the call (NoPanic if none)
    wArgs,      \* arguments of a direct buildWhere call
    wRes,       \* result of a direct buildWhere call
    params0,    \* the query.Params as NewParams returned it
    callerRef,  \* TRUE when the caller holds a slice sharing params' backing array
    ret,        \* the most recent call of the operation under study and what it returned
    orArgs,     \* the params handed to query.OR
    calls,      \* the calls in progress, one per goroutine
    dbLog,      \* what the database was asked to do: Begin, Commit, Rollback
    heap,       \* the scopeValue objects allocated by Begin
    ctxStack    \* the contexts of the operations in progress, innermost last

pipelineVars == <<builder, scopes, idx, tx, relTx, panicVal, wArgs, wRes>>
paramsVars == <<params0, callerRef, ret>>
orVars     == <<orArgs>>
buildVars  == <<calls>>
txVars     == <<dbLog, heap, ctxStack>>

otherVars == <<paramsVars, orVars, buildVars, txVars>>

vars == <<builder, params, scopes, idx, tx, relTx, pc, panicVal, wArgs, wRes, otherVars>>

(***************************************************************************)
(* Bounds of the model.                                                    *)
(***************************************************************************)
MaxParams == 2      \* longest param list handed to NewParams
MaxOr     == 2      \* most children of one OR group
MaxLen    == 2      \* longest collection used as a filter value
MaxOp     == 6      \* Operator values 0..MaxOp (those above LTE are undefined operators)
NumCalls  == 2      \* concurrent Build calls on one builder and one Params
MaxDepth  == 3      \* deepest nesting of operations on one context chain
MaxTx     == 2      \* most transactions the database is asked to begin
MaxWithers == 2     \* longest chain of wither calls on one param

(***************************************************************************)
(* query.Operator                                                          *)
(***************************************************************************)
EQ  == 0
NEQ == 1
GT  == 2
GTE == 3
LT  == 4
LTE == 5

Operators == 0..MaxOp

OperatorString(o) ==
    CASE o = EQ  -> "EQ"
      [] o = NEQ -> "NEQ"
      [] o = GT  -> "GT"
      [] o = GTE -> "GTE"
      [] o = LT  -> "LT"
      [] o = LTE -> "LTE"
      [] OTHER   -> "UNKNOWN"

(***************************************************************************)
(* Values of type `any` carried by a filter: the nil interface, a scalar,  *)
(* or a slice of scalars.                                                  *)
(***************************************************************************)
NilValue  == [k |-> "nil", s |-> 0, c |-> <<>>]
Scalar(n) == [k |-> "scalar", s |-> n, c |-> <<>>]
Slice(q)  == [k |-> "slice", s |-> 0, c |-> q]

(***************************************************************************)
(* Param kinds (query/types.go) and lock types (query/withlock.go).        *)
(***************************************************************************)
TypeFilter   == "filter"
TypeGroupBy  == "groupby"
TypeSelect   == "select"
TypeOR       == "or"
TypeOrderBy  == "orderby"
TypePaginate == "paginate"
TypePreload  == "preload"
TypeWithLock == "withlock"
TypeWithHint == "withhint"

LockTypeForUpdate == 0
InvalidLockType   == 4242

(***************************************************************************)
(* Param constructors.  The field go is the Go dynamic type of the value.  *)
(***************************************************************************)
Filter(fieldName, value) ==
    [go |-> "FilterParam", Name |-> fieldName, Operator |-> EQ, Value |-> value]

\* WithOP that sets the operator only of a filter that still has EQ.
WithOPFirstOnly(p, op) ==
    [go |-> "FilterParam", Name |-> p.Name,
     Operator |-> IF p.Operator = EQ THEN op ELSE p.Operator, Value |-> p.Value]

WithOP(p, op) ==
    [go |-> "FilterParam", Name |-> p.Name, Operator |-> op, Value |-> p.Value]

OR(filterParams) == [go |-> "ORParam", Params |-> filterParams]

OrderBy(name, desc) == [go |-> "OrderByParam", Name |-> name, Desc |-> desc]

GroupBy(names) ==
    [go |-> "GroupByParam", Names |-> names, Option |-> "", Having |-> <<>>]

WithOption(p, option) ==
    [go |-> "GroupByParam", Names |-> p.Names, Option |-> option, Having |-> <<>>]

WithHaving(p, having) ==
    [go |-> "GroupByParam", Names |-> p.Names, Option |-> p.Option, Having |-> having]

Select(fields) == [go |-> "SelectParam", Names |-> fields]

Paginate(offset, limit) == [go |-> "PaginateParam", Offset |-> offset, Limit |-> limit]

Preload(name, nested) == [go |-> "PreloadParam", Name |-> name, Params |-> nested]

WithLock(lockType) == [go |-> "WithLockParam", LockType |-> lockType]

WithHint(hint) == [go |-> "WithHintParam", Hint |-> hint]

ParamType(p) ==
    CASE p.go = "FilterParam"   -> TypeFilter
      [] p.go = "ORParam"       -> TypeOR
      [] p.go = "OrderByParam"  -> TypeOrderBy
      [] p.go = "GroupByParam"  -> TypeGroupBy
      [] p.go = "SelectParam"   -> TypeSelect
      [] p.go = "PaginateParam" -> TypePaginate
      [] p.go = "PreloadParam"  -> TypePreload
      [] p.go = "WithLockParam" -> TypeWithLock
      [] p.go = "WithHintParam" -> TypeWithHint

(***************************************************************************)
(* query.Params                                                            *)
(***************************************************************************)
RECURSIVE cacheFilters(_, _, _)
cacheFilters(ps, i, cached) ==
    IF i > Len(ps) THEN cached
    ELSE IF ParamType(ps[i]) = "filter"
         THEN cacheFilters(ps, i + 1,
                  [n \in DOMAIN cached \cup {ps[i].Name} |->
                      IF n = ps[i].Name THEN i ELSE cached[n]])
         ELSE cacheFilters(ps, i + 1, cached)

NewParams(ps) == [params |-> ps, cachedFilter |-> cacheFilters(ps, 1, <<>>)]

ParamsOf(p) == p.params

\* The value a panic carries: its format string and the arguments formatted into it.
NoPanic == [fmt |-> "", args |-> <<>>]

PanicValue(fmt, args) == [fmt |-> fmt, args |-> args]

\* A Go slice header as a caller can observe it: nil or not, and its elements.
NilSlice   == [isNil |-> TRUE, elems |-> <<>>]
EmptySlice == [isNil |-> FALSE, elems |-> <<>>]

append(s, e) == [isNil |-> FALSE, elems |-> Append(s.elems, e)]

RECURSIVE getLoop(_, _, _, _)
getLoop(ps, paramType, i, acc) ==
    IF i > Len(ps) THEN acc
    ELSE getLoop(ps, paramType, i + 1,
             IF ParamType(ps[i]) = paramType THEN append(acc, ps[i]) ELSE acc)

GetFromNil(p, paramType) == getLoop(p.params, paramType, 1, NilSlice)

Get(p, paramType) == getLoop(p.params, paramType, 1, EmptySlice)

\* FilterParam{}: the zero value of the struct.
ZeroFilter == [go |-> "FilterParam", Name |-> "", Operator |-> 0, Value |-> NilValue]

Found(f) == [ok |-> TRUE, val |-> f, found |-> TRUE, panic |-> NoPanic]
NotFound == [ok |-> TRUE, val |-> ZeroFilter, found |-> FALSE, panic |-> NoPanic]
\* p.params[i].(FilterParam) on a value of another dynamic type
BadAssertion(e) ==
    [ok |-> FALSE, val |-> ZeroFilter, found |-> FALSE,
     panic |-> PanicValue("interface conversion: query.Param is query.%s, not query.FilterParam",
                          <<e.go>>)]

GetFilterFirst(p, name) ==
    LET at == {i \in DOMAIN p.params :
                  p.params[i].go = "FilterParam" /\ p.params[i].Name = name}
    IN  IF at = {} THEN NotFound
        ELSE Found(p.params[CHOOSE i \in at : \A j \in at : i <= j])

GetFilterScan(p, name) ==
    LET at == {i \in DOMAIN p.params :
                  p.params[i].go = "FilterParam" /\ p.params[i].Name = name}
    IN  IF at = {} THEN NotFound
        ELSE Found(p.params[CHOOSE i \in at : \A j \in at : j <= i])

GetFilter(p, name) ==
    IF name \in DOMAIN p.cachedFilter
    THEN LET e == p.params[p.cachedFilter[name]]
         IN  IF e.go = "FilterParam" THEN Found(e) ELSE BadAssertion(e)
    ELSE NotFound

\* The closure FilterGetter returns captures name; calling it calls GetFilter.
FilterGetter(name) == [fn |-> "GetFilter", name |-> name]

CallGetter(getter, p) == GetFilter(p, getter.name)

\* query.OR called on arbitrary params: the ORParam, or the panic of the
\* first param that is not a FilterParam.  nilParams tells whether the
\* ORParam's Params slice is nil.
RECURSIVE orCollect(_, _, _)
orCollect(ps, i, filterParams) ==
    IF i > Len(ps)
    THEN [ok |-> TRUE, val |-> OR(filterParams.elems), nilParams |-> filterParams.isNil,
          panic |-> NoPanic]
    ELSE IF ps[i].go # "FilterParam"
         THEN [ok |-> FALSE, val |-> <<>>, nilParams |-> TRUE,
               panic |-> PanicValue("OR only accept FilterParam but got %s", <<ParamType(ps[i])>>)]
         ELSE orCollect(ps, i + 1, append(filterParams, ps[i]))

ORSkipNonFilter(ps) ==
    orCollect(SelectSeq(ps, LAMBDA e : e.go = "FilterParam"), 1, EmptySlice)

ORChecked(ps) == orCollect(ps, 1, EmptySlice)

(***************************************************************************)
(* Where-clause assembly (gormquery, where.go).  A call either returns     *)
(* (sql, val) or panics; ok tells which.                                   *)
(***************************************************************************)
Ret(sql, val)    == [ok |-> TRUE, sql |-> sql, val |-> val, panic |-> NoPanic]
Panic(fmt, args) == [ok |-> FALSE, sql |-> "", val |-> NilValue,
                     panic |-> PanicValue(fmt, args)]

\* operatorToString of the earlier revision of the file ("!=" for NEQ).
operatorToStringEarlier(op) ==
    CASE op = EQ  -> "="
      [] op = NEQ -> "!="
      [] op = GT  -> ">"
      [] op = GTE -> ">="
      [] op = LT  -> "<"
      [] op = LTE -> "<="
      [] OTHER    -> "UNKNOWN"

operatorToString(op) ==
    CASE op = EQ  -> "="
      [] op = NEQ -> "<>"
      [] op = GT  -> ">"
      [] op = GTE -> ">="
      [] op = LT  -> "<"
      [] op = LTE -> "<="
      [] OTHER    -> "UNKNOWN"

\* inOperatorToString of the earlier revision of the file (no panic).
inOperatorToStringEarlier(op) ==
    CASE op = EQ  -> Ret("IN", NilValue)
      [] op = NEQ -> Ret("NOT IN", NilValue)
      [] OTHER    -> Ret("UNKNOWN", NilValue)

\* inOperatorToString that forgets the negation.
inOperatorToStringNoNot(op) ==
    CASE op = EQ  -> Ret("IN", NilValue)
      [] op = NEQ -> Ret("IN", NilValue)
      [] OTHER    -> Panic("%s is unsupported operator for IN clause", <<OperatorString(op)>>)

inOperatorToString(op) ==
    CASE op = EQ  -> Ret("IN", NilValue)
      [] op = NEQ -> Ret("NOT IN", NilValue)
      [] OTHER    -> Panic("%s is unsupported operator for IN clause", <<OperatorString(op)>>)

buildWhereStr(fieldName, operator) ==
    fieldName \o " " \o operatorToString(operator) \o " ?"

buildWhereInStr(fieldName, op) ==
    LET tok == inOperatorToString(op)
    IN  IF tok.ok THEN Ret(fieldName \o " " \o tok.sql \o " (?)", NilValue)
        ELSE tok

\* buildWhere that builds the IN clause for every non-empty collection.
buildWhereInForOne(fieldName, operator, value) ==
    IF value = NilValue THEN Panic("value cannot be nil", <<>>)
    ELSE IF value.k = "slice"
    THEN LET n == Len(value.c)
         IN  IF n >= 1
             THEN LET in == buildWhereInStr(fieldName, operator)
                  IN  IF in.ok THEN Ret(in.sql, value) ELSE in
             ELSE Panic("reflect: slice index out of range", <<>>)
    ELSE Ret(buildWhereStr(fieldName, operator), value)

\* buildWhere that binds an empty collection like a scalar.
buildWhereEmptyAsScalar(fieldName, operator, value) ==
    IF value = NilValue THEN Panic("value cannot be nil", <<>>)
    ELSE IF value.k = "slice"
    THEN LET n == Len(value.c)
         IN  IF n > 1
             THEN LET in == buildWhereInStr(fieldName, operator)
                  IN  IF in.ok THEN Ret(in.sql, value) ELSE in
             ELSE IF n = 0
                  THEN Ret(buildWhereStr(fieldName, operator), value)
                  ELSE Ret(buildWhereStr(fieldName, operator), Scalar(value.c[1]))
    ELSE Ret(buildWhereStr(fieldName, operator), value)

buildWhere(fieldName, operator, value) ==
    IF value = NilValue THEN Panic("value cannot be nil", <<>>)
    ELSE IF value.k = "slice"
    THEN LET n == Len(value.c)
         IN  IF n > 1
             THEN LET in == buildWhereInStr(fieldName, operator)
                  IN  IF in.ok THEN Ret(in.sql, value) ELSE in
             ELSE IF n = 0
                  THEN Panic("reflect: slice index out of range", <<>>)
                  ELSE Ret(buildWhereStr(fieldName, operator), Scalar(value.c[1]))
    ELSE Ret(buildWhereStr(fieldName, operator), value)

(***************************************************************************)
(* ScopeBuilder construction (gormquery, builder.go and options.go).       *)
(* Registry maps a param kind to the name of the builder method; a         *)
(* CustomFilters entry maps a field name to the caller's builder function. *)
(***************************************************************************)
DefaultRegistry ==
    [kind \in {TypeFilter, TypeOR, TypePaginate, TypeGroupBy, TypeSelect,
               TypeOrderBy, TypePreload, TypeWithLock} |->
        CASE kind = TypeFilter   -> "Filter"
          [] kind = TypeOR       -> "OR"
          [] kind = TypePaginate -> "Paginate"
          [] kind = TypeGroupBy  -> "GroupBy"
          [] kind = TypeSelect   -> "Select"
          [] kind = TypeOrderBy  -> "OrderBy"
          [] kind = TypePreload  -> "Preload"
          [] kind = TypeWithLock -> "ClauseLockUpdate"]

WithCustomFilters(customFilters) == [opt |-> "WithCustomFilters", arg |-> customFilters]

WithFieldToColMap(fieldToColMap) == [opt |-> "WithFieldToColMap", arg |-> fieldToColMap]

ApplyOption(b, option) ==
    CASE option.opt = "WithCustomFilters" -> [b EXCEPT !.CustomFilters = option.arg]
      [] option.opt = "WithFieldToColMap" -> [b EXCEPT !.FieldToColMap = option.arg]

RECURSIVE applyOptions(_, _, _)
applyOptions(b, options, i) ==
    IF i > Len(options) THEN b
    ELSE applyOptions(ApplyOption(b, options[i]), options, i + 1)

NewBuilder(options) ==
    applyOptions([FieldToColMap |-> <<>>,
                  Registry      |-> DefaultRegistry,
                  CustomFilters |-> <<>>],
                 options, 1)

getColName(b, name) ==
    IF name \in DOMAIN b.FieldToColMap THEN b.FieldToColMap[name] ELSE name

(***************************************************************************)
(* The builder methods.  Each returns a closure, modelled as the record of *)
(* what the closure captured: fn names its body, col and p its captures.   *)
(***************************************************************************)
Closure(fn, col, p) == [fn |-> fn, col |-> col, p |-> p]

CallCustomFilter(custom, param) == Closure(custom, "", param)

\* BuilderFilter that never consults CustomFilters.
BuilderFilterNoOverride(b, param) ==
    Closure("Filter", getColName(b, param.Name), param)

BuilderFilter(b, param) ==
    IF param.Name \in DOMAIN b.CustomFilters
    THEN CallCustomFilter(b.CustomFilters[param.Name], param)
    ELSE Closure("Filter", getColName(b, param.Name), param)

BuilderOR(b, param) == Closure("OR", "", param)

BuilderPaginate(b, param) == Closure("Paginate", "", param)

BuilderGroupBy(b, param) == Closure("GroupBy", "", param)

BuilderSelect(b, param) == Closure("Select", "", param)

BuilderOrderBy(b, param) == Closure("OrderBy", "", param)

BuilderPreload(b, param) == Closure("Preload", "", param)

ClauseLockUpdate(b, param) ==
    IF param.LockType = LockTypeForUpdate
    THEN Closure("LockingUpdate", "", param)
    ELSE Closure("ReturnTx", "", param)

CallBuilder(b, method, param) ==
    CASE method = "Filter"           -> BuilderFilter(b, param)
      [] method = "OR"               -> BuilderOR(b, param)
      [] method = "Paginate"         -> BuilderPaginate(b, param)
      [] method = "GroupBy"          -> BuilderGroupBy(b, param)
      [] method = "Select"           -> BuilderSelect(b, param)
      [] method = "OrderBy"          -> BuilderOrderBy(b, param)
      [] method = "Preload"          -> BuilderPreload(b, param)
      [] method = "ClauseLockUpdate" -> ClauseLockUpdate(b, param)

\* buildLoop with the new scope put in front of the ones built so far.
RECURSIVE buildLoopPrepend(_, _, _, _)
buildLoopPrepend(b, ps, i, acc) ==
    IF i > Len(ps) THEN acc
    ELSE IF ParamType(ps[i]) \in DOMAIN b.Registry
         THEN buildLoopPrepend(b, ps, i + 1,
                  <<CallBuilder(b, b.Registry[ParamType(ps[i])], ps[i])>> \o acc)
         ELSE buildLoopPrepend(b, ps, i + 1, acc)

RECURSIVE buildLoop(_, _, _, _)
buildLoop(b, ps, i, acc) ==
    IF i > Len(ps) THEN acc
    ELSE IF ParamType(ps[i]) \in DOMAIN b.Registry
         THEN buildLoop(b, ps, i + 1,
                  Append(acc, CallBuilder(b, b.Registry[ParamType(ps[i])], ps[i])))
         ELSE buildLoop(b, ps, i + 1, acc)

Build(b, p) == buildLoop(b, ParamsOf(p), 1, <<>>)

\* One iteration of Build's loop, on the call's local scopes.
buildIteration(b, ps, i, acc) ==
    IF ParamType(ps[i]) \in DOMAIN b.Registry
    THEN Append(acc, CallBuilder(b, b.Registry[ParamType(ps[i])], ps[i]))
    ELSE acc

(***************************************************************************)
(* The *gorm.DB statement and the closure bodies.  A condition is          *)
(* [conj, sql, val, sub]: conj is how it joins the conditions before it,   *)
(* sub the conditions of a parenthesised group (empty for a plain one).    *)
(* A closure body either returns the statement or panics.                  *)
(***************************************************************************)
EmptyStatement ==
    [where |-> <<>>, group |-> <<>>, having |-> <<>>, selects |-> <<>>,
     orders |-> <<>>, page |-> <<>>, preloads |-> <<>>, locking |-> "",
     err |-> ""]

Cond(conj, sql, val, sub) == [conj |-> conj, sql |-> sql, val |-> val, sub |-> sub]

TxOk(t)         == [ok |-> TRUE, tx |-> t, panic |-> NoPanic]
TxPanic(t, msg) == [ok |-> FALSE, tx |-> t, panic |-> msg]

\* RunFilter that leaves the statement alone when the predicate cannot be built.
RunFilterSkipOnError(b, s, t) ==
    LET w == buildWhere(s.col, s.p.Operator, s.p.Value)
    IN  IF w.ok
        THEN TxOk([t EXCEPT !.where = Append(@, Cond("AND", w.sql, w.val, <<>>))])
        ELSE TxOk(t)

RunFilter(b, s, t) ==
    LET w == buildWhere(s.col, s.p.Operator, s.p.Value)
    IN  IF w.ok
        THEN TxOk([t EXCEPT !.where = Append(@, Cond("AND", w.sql, w.val, <<>>))])
        ELSE TxPanic(t, w.panic)

RunCustomFilter(b, s, t) ==
    TxOk([t EXCEPT !.where = Append(@, Cond("AND", "first_name = ?", s.p.Value, <<>>))])

RECURSIVE orLoop(_, _, _, _)
orLoop(b, filters, i, db) ==
    IF i > Len(filters) THEN TxOk(db)
    ELSE LET col == getColName(b, filters[i].Name)
             w   == buildWhere(col, filters[i].Operator, filters[i].Value)
         IN  IF ~w.ok THEN TxPanic(db, w.panic)
             ELSE IF i = 1
                  THEN orLoop(b, filters, i + 1,
                           Append(db, Cond("AND", w.sql, w.val, <<>>)))
                  ELSE orLoop(b, filters, i + 1,
                           Append(db, Cond("OR", w.sql, w.val, <<>>)))

\* RunOR that adds the children to the outer condition list one by one.
RunORFlattened(b, s, t) ==
    LET db == orLoop(b, s.p.Params, 1, <<>>)
    IN  IF ~db.ok THEN TxPanic(t, db.panic)
        ELSE TxOk([t EXCEPT !.where = @ \o db.tx])

RunOR(b, s, t) ==
    LET db == orLoop(b, s.p.Params, 1, <<>>)
    IN  IF ~db.ok THEN TxPanic(t, db.panic)
        ELSE IF Len(db.tx) = 0 THEN TxOk(t)
        ELSE TxOk([t EXCEPT !.where = Append(@, Cond("AND", "", NilValue, db.tx))])

RunPaginate(b, s, t) == TxOk([t EXCEPT !.page = <<s.p.Offset, s.p.Limit>>])

RECURSIVE Join(_, _)
Join(elems, sep) ==
    IF Len(elems) = 0 THEN ""
    ELSE IF Len(elems) = 1 THEN elems[1]
    ELSE elems[1] \o sep \o Join(Tail(elems), sep)

\* havingLoop that hands a filter with a custom override to the override.
RECURSIVE havingLoopWithCustom(_, _, _, _)
havingLoopWithCustom(b, having, i, t) ==
    IF i > Len(having) THEN TxOk(t)
    ELSE IF having[i].Name \in DOMAIN b.CustomFilters
    THEN havingLoopWithCustom(b, having, i + 1,
             [t EXCEPT !.having = Append(@, Cond("AND", "first_name = ?", having[i].Value, <<>>))])
    ELSE LET w == buildWhere(getColName(b, having[i].Name),
                             having[i].Operator, having[i].Value)
         IN  IF ~w.ok THEN TxPanic(t, w.panic)
             ELSE havingLoopWithCustom(b, having, i + 1,
                      [t EXCEPT !.having = Append(@, Cond("AND", w.sql, w.val, <<>>))])

RECURSIVE havingLoop(_, _, _, _)
havingLoop(b, having, i, t) ==
    IF i > Len(having) THEN TxOk(t)
    ELSE LET w == buildWhere(getColName(b, having[i].Name),
                             having[i].Operator, having[i].Value)
         IN  IF ~w.ok THEN TxPanic(t, w.panic)
             ELSE havingLoop(b, having, i + 1,
                      [t EXCEPT !.having = Append(@, Cond("AND", w.sql, w.val, <<>>))])

\* A GroupBy scope that appends the option whether or not it is empty.
RunGroupByAlwaysOption(b, s, t) ==
    LET cols    == [i \in 1..Len(s.p.Names) |-> getColName(b, s.p.Names[i])]
        grouped == [t EXCEPT !.group = Append(@, Join(cols, ", ") \o " " \o s.p.Option)]
    IN  havingLoop(b, s.p.Having, 1, grouped)

RunGroupBy(b, s, t) ==
    LET cols    == [i \in 1..Len(s.p.Names) |-> getColName(b, s.p.Names[i])]
        joined  == Join(cols, ", ")
        groupBy == IF s.p.Option # "" THEN joined \o " " \o s.p.Option ELSE joined
        grouped == [t EXCEPT !.group = Append(@, groupBy)]
    IN  IF Len(s.p.Having) > 0
        THEN havingLoop(b, s.p.Having, 1, grouped)
        ELSE TxOk(grouped)

RunSelect(b, s, t) ==
    TxOk([t EXCEPT !.selects = [i \in 1..Len(s.p.Names) |-> getColName(b, s.p.Names[i])]])

RunOrderBy(b, s, t) ==
    TxOk([t EXCEPT !.orders = Append(@, [col |-> getColName(b, s.p.Name), desc |-> s.p.Desc])])

\* A Preload scope that drops the nested params.
RunPreloadBare(b, s, t) ==
    TxOk([t EXCEPT !.preloads = Append(@, [name |-> s.p.Name, args |-> <<>>])])

RunPreload(b, s, t) ==
    IF Len(s.p.Params) = 0
    THEN TxOk([t EXCEPT !.preloads = Append(@, [name |-> s.p.Name, args |-> <<>>])])
    ELSE TxOk([t EXCEPT !.preloads =
                  Append(@, [name |-> s.p.Name,
                             args |-> Build(b, NewParams(s.p.Params))])])

RunLockingUpdate(b, s, t) == TxOk([t EXCEPT !.locking = "UPDATE"])

RunReturnTx(b, s, t) == TxOk(t)

RunScope(b, s, t) ==
    CASE s.fn = "Filter"        -> RunFilter(b, s, t)
      [] s.fn = "byFirstName"   -> RunCustomFilter(b, s, t)
      [] s.fn = "OR"            -> RunOR(b, s, t)
      [] s.fn = "Paginate"      -> RunPaginate(b, s, t)
      [] s.fn = "GroupBy"       -> RunGroupBy(b, s, t)
      [] s.fn = "Select"        -> RunSelect(b, s, t)
      [] s.fn = "OrderBy"       -> RunOrderBy(b, s, t)
      [] s.fn = "Preload"       -> RunPreload(b, s, t)
      [] s.fn = "LockingUpdate" -> RunLockingUpdate(b, s, t)
      [] s.fn = "ReturnTx"      -> RunReturnTx(b, s, t)

\* The value bound to the join condition of a relation query: the keys of
\* the rows the root query returned.
ForeignKeys == [k |-> "keys", s |-> 0, c |-> <<>>]

\* gorm's preload of one relation: Statement.Preloads is a map, so the last
\* tx.Preload call of a name decides its conditions; they are run, in order,
\* on a new statement for the relation, and the join condition on the root
\* rows' keys is added after them.
RECURSIVE applyConds(_, _, _, _)
RECURSIVE nextCond(_, _, _, _)
applyConds(b, conds, i, rel) ==
    IF i > Len(conds) THEN TxOk(rel)
    ELSE nextCond(b, conds, i, RunScope(b, conds[i], rel))

\* r is what running conds[i] gave: go on with the next one unless it panicked
nextCond(b, conds, i, r) ==
    IF r.ok THEN applyConds(b, conds, i + 1, r.tx) ELSE r

\* the position of the last tx.Preload call for name
lastPreload(t, name) ==
    CHOOSE i \in DOMAIN t.preloads :
        /\ t.preloads[i].name = name
        /\ \A j \in DOMAIN t.preloads : t.preloads[j].name = name => j <= i

\* r is what running the conditions gave: add the join condition
joinOnKeys(r, name) ==
    IF r.ok
    THEN TxOk([r.tx EXCEPT !.where = Append(@, Cond("AND", name \o ".id = ?", ForeignKeys, <<>>))])
    ELSE r

preloadQuery(b, t, name) ==
    joinOnKeys(applyConds(b, t.preloads[lastPreload(t, name)].args, 1, EmptyStatement), name)

preloadQueries(b, t) ==
    [name \in {t.preloads[i].name : i \in DOMAIN t.preloads} |-> preloadQuery(b, t, name)]

(***************************************************************************)
(* Inputs.                                                                 *)
(***************************************************************************)
SeqsUpTo(S, n) == UNION {[1..k -> S] : k \in 0..n}

Elems == {1, 2}

FieldNames == {"id", "Name", "tag"}

FieldToCol == [n \in {"Name"} |-> "name"]

TagFilter == [n \in {"tag"} |-> "byFirstName"]

Builders ==
    {NewBuilder(<<>>),
     NewBuilder(<<WithFieldToColMap(FieldToCol), WithCustomFilters(TagFilter)>>)}

LongSlice == Slice([i \in 1..MaxLen |-> i])

FilterPool ==
    {WithOP(Filter(n, v), op) :
        n \in FieldNames, op \in {EQ, GT}, v \in {NilValue, Scalar(1), LongSlice}}

ORPool ==
    {OR(fs) : fs \in SeqsUpTo({Filter("Name", Scalar(1)), Filter("tag", Scalar(2))}, MaxOr)}

OtherPool ==
    {WithLock(LockTypeForUpdate), WithLock(InvalidLockType), WithHint("h"),
     Paginate(1, 10), OrderBy("Name", TRUE), Select(<<"id", "Name">>),
     WithHaving(GroupBy(<<"Name">>), <<WithOP(Filter("Name", Scalar(1)), GT)>>),
     Preload("Referer", <<>>),
     Preload("Referer", <<Filter("Name", Scalar(1))>>)}

ParamPool == FilterPool \cup ORPool \cup OtherPool

WhereValues ==
    {NilValue} \cup {Scalar(n) : n \in Elems} \cup {Slice(q) : q \in SeqsUpTo(Elems, MaxLen)}

NoArgs   == [fieldName |-> "", operator |-> EQ, value |-> NilValue]
NoResult == [ok |-> FALSE, sql |-> "", val |-> NilValue, panic |-> NoPanic]

\* What the variables outside a specification's own group hold throughout it.
NoCall == [op |-> "", arg |-> "", res |-> <<>>]

ParamsIdle ==
    /\ params0 = NewParams(<<>>)
    /\ callerRef = FALSE
    /\ ret = NoCall

ORIdle == orArgs = <<>>

BuildIdle == calls = <<>>

TxIdle ==
    /\ dbLog = <<>>
    /\ heap = <<>>
    /\ ctxStack = <<>>

OtherIdle == ParamsIdle /\ ORIdle /\ BuildIdle /\ TxIdle

(***************************************************************************)
(* The query pipeline: Build, then db.Scopes(scopes...).Find.              *)
(***************************************************************************)
Init ==
    /\ builder \in Builders
    /\ params \in {NewParams(ps) : ps \in SeqsUpTo(ParamPool, MaxParams)}
    /\ scopes = <<>>
    /\ idx = 0
    /\ tx = EmptyStatement
    /\ relTx = <<>>
    /\ pc = "ready"
    /\ panicVal = NoPanic
    /\ wArgs = NoArgs
    /\ wRes = NoResult
    /\ OtherIdle

CallBuild ==
    /\ pc = "ready"
    /\ scopes' = Build(builder, params)
    /\ pc' = "built"
    /\ UNCHANGED <<builder, params, idx, tx, relTx, panicVal, wArgs, wRes>>
    /\ UNCHANGED otherVars

ExecuteScope ==
    /\ pc = "built"
    /\ idx < Len(scopes)
    /\ LET r == RunScope(builder, scopes[idx + 1], tx)
       IN  /\ tx' = r.tx
           /\ idx' = IF r.ok THEN idx + 1 ELSE idx
           /\ pc' = IF r.ok THEN "built" ELSE "panicked"
           /\ panicVal' = r.panic
    /\ UNCHANGED <<builder, params, scopes, relTx, wArgs, wRes>>
    /\ UNCHANGED otherVars

\* What Find does with the relation queries q, one per preloaded name.
runPreloads(q) ==
    IF \A n \in DOMAIN q : q[n].ok
    THEN /\ relTx' = [n \in DOMAIN q |-> q[n].tx]
         /\ pc' = "done"
         /\ UNCHANGED panicVal
    ELSE /\ \E n \in DOMAIN q : ~q[n].ok /\ panicVal' = q[n].panic
         /\ pc' = "panicked"
         /\ UNCHANGED relTx

\* gorm's Find: the root query runs on the statement as the scopes left it,
\* then one relation query per preloaded name.  A panic of a nested scope
\* unwinds Find.
Find ==
    /\ pc = "built"
    /\ idx = Len(scopes)
    /\ runPreloads(preloadQueries(builder, tx))
    /\ UNCHANGED <<builder, params, scopes, idx, tx, wArgs, wRes>>
    /\ UNCHANGED otherVars

Next == CallBuild \/ ExecuteScope \/ Find

Spec == Init /\ [][Next]_vars

(***************************************************************************)
(* The pipeline on a Params with a Preload.                                *)
(***************************************************************************)
NestedPool ==
    {Filter("Name", Scalar(1)), Filter("id", LongSlice), Filter("tag", Scalar(2)),
     Filter("id", NilValue), OrderBy("Name", TRUE), WithHint("h")}

RootPool == {<<>>, <<Filter("Name", Scalar(2))>>}

InitPreload ==
    /\ builder \in Builders
    /\ \E root \in RootPool, name \in {"Referer", "Author"},
          nested \in SeqsUpTo(NestedPool, MaxParams),
          again \in {<<>>, <<Preload("Referer", <<>>)>>} :
            params = NewParams(root \o <<Preload(name, nested)>> \o again)
    /\ scopes = <<>>
    /\ idx = 0
    /\ tx = EmptyStatement
    /\ relTx = <<>>
    /\ pc = "ready"
    /\ panicVal = NoPanic
    /\ wArgs = NoArgs
    /\ wRes = NoResult
    /\ OtherIdle

SpecPreload == InitPreload /\ [][Next]_vars

(***************************************************************************)
(* The pipeline on a Params with a GroupBy.                                *)
(***************************************************************************)
HavingPool ==
    {WithOP(Filter("Name", Scalar(1)), GT), Filter("id", LongSlice),
     Filter("tag", Scalar(2)), Filter("id", NilValue)}

GroupByPool ==
    {WithHaving(g, having) :
        g \in {GroupBy(names) : names \in SeqsUpTo({"id", "Name"}, MaxParams)}
              \cup {WithOption(GroupBy(names), "WITH ROLLUP") :
                        names \in SeqsUpTo({"id", "Name"}, MaxParams)},
        having \in SeqsUpTo(HavingPool, MaxOr)}

InitGroupBy ==
    /\ builder \in Builders
    /\ \E root \in RootPool, g \in GroupByPool : params = NewParams(root \o <<g>>)
    /\ scopes = <<>>
    /\ idx = 0
    /\ tx = EmptyStatement
    /\ relTx = <<>>
    /\ pc = "ready"
    /\ panicVal = NoPanic
    /\ wArgs = NoArgs
    /\ wRes = NoResult
    /\ OtherIdle

SpecGroupBy == InitGroupBy /\ [][Next]_vars

(***************************************************************************)
(* Concurrent Build calls: goroutines share one *ScopeBuilder and one      *)
(* query.Params; each call has its own loop position and its own scopes    *)
(* slice, and the scheduler interleaves their loop iterations.             *)
(***************************************************************************)
Goroutines == 1..NumCalls

ConcPool ==
    {Filter("tag", Scalar(1)), WithOP(Filter("Name", LongSlice), GT), WithHint("h"),
     Preload("Referer", <<Filter("Name", Scalar(1))>>)}

InitConc ==
    /\ builder \in Builders
    /\ params \in {NewParams(ps) : ps \in SeqsUpTo(ConcPool, MaxParams)}
    /\ calls = [g \in Goroutines |-> [pc |-> "loop", i |-> 1, scopes |-> <<>>]]
    /\ scopes = <<>>
    /\ idx = 0
    /\ tx = EmptyStatement
    /\ relTx = <<>>
    /\ pc = "conc"
    /\ panicVal = NoPanic
    /\ wArgs = NoArgs
    /\ wRes = NoResult
    /\ ParamsIdle /\ ORIdle /\ TxIdle

\* A loop iteration that appends to the scopes of every call in progress.
BuildIterShared(g) ==
    /\ calls[g].pc = "loop"
    /\ calls[g].i <= Len(ParamsOf(params))
    /\ calls' = [h \in Goroutines |->
                    [pc |-> calls[h].pc,
                     i  |-> IF h = g THEN calls[h].i + 1 ELSE calls[h].i,
                     scopes |-> IF calls[h].pc = "loop"
                                THEN buildIteration(builder, ParamsOf(params), calls[g].i,
                                                    calls[h].scopes)
                                ELSE calls[h].scopes]]
    /\ UNCHANGED <<params, pc, pipelineVars, paramsVars, orVars, txVars>>

BuildIter(g) ==
    /\ calls[g].pc = "loop"
    /\ calls[g].i <= Len(ParamsOf(params))
    /\ calls' = [calls EXCEPT
                    ![g].scopes = buildIteration(builder, ParamsOf(params), calls[g].i, @),
                    ![g].i = @ + 1]
    /\ UNCHANGED <<params, pc, pipelineVars, paramsVars, orVars, txVars>>

BuildReturn(g) ==
    /\ calls[g].pc = "loop"
    /\ calls[g].i > Len(ParamsOf(params))
    /\ calls' = [calls EXCEPT ![g].pc = "returned"]
    /\ UNCHANGED <<params, pc, pipelineVars, paramsVars, orVars, txVars>>

NextConc == \E g \in Goroutines : BuildIter(g) \/ BuildReturn(g)

SpecConc == InitConc /\ [][NextConc]_vars

(***************************************************************************)
(* gormopscope.TransactionScope.  A context is identified by the           *)
(* *scopeValue it carries under the scope's key: Background carries none,  *)
(* and a context made by setScopeValue is the position of its scopeValue   *)
(* in heap.  An error is the set of the errors joined or wrapped in it;    *)
(* nil is the empty set.                                                   *)
(***************************************************************************)
Background == 0

Int16Max == 32767

ErrNil      == {}
errBeginTx  == "failed to begin transaction"
ErrConnDone == "sql: connection is already closed"
AnError     == "assert.AnError general error for testing"

\* errors.Is(err, target)
ErrorsIs(err, target) == target \in err

\* scopeVal.level++ and scopeVal.level-- on an int16
IncLevel(n) == IF n = Int16Max THEN -Int16Max - 1 ELSE n + 1
DecLevel(n) == IF n = -Int16Max - 1 THEN Int16Max ELSE n - 1

\* the *scopeValue stored in ctx under the scope's key (0 when there is none)
getScopeValue(ctx) == ctx

\* Begin that starts a transaction whether or not ctx carries one.
BeginAlwaysNew(h, log, ctx, dbOk) ==
    IF ~dbOk
    THEN [heap |-> h, log |-> Append(log, [op |-> "Begin", tx |-> 0, ok |-> FALSE]),
          ctx |-> ctx, err |-> {errBeginTx, ErrConnDone}]
    ELSE [heap |-> Append(h, [tx |-> Len(h) + 1, level |-> 1]),
          log |-> Append(log, [op |-> "Begin", tx |-> Len(h) + 1, ok |-> TRUE]),
          ctx |-> Len(h) + 1, err |-> ErrNil]

\* Begin on heap h and database log, with dbOk telling whether the
\* database can begin a transaction: the heap, the log, the context and the
\* error after the call.
Begin(h, log, ctx, dbOk) ==
    IF getScopeValue(ctx) # 0
    THEN [heap |-> [h EXCEPT ![getScopeValue(ctx)].level = IncLevel(@)], log |-> log,
          ctx |-> ctx, err |-> ErrNil]
    ELSE IF ~dbOk
    THEN [heap |-> h, log |-> Append(log, [op |-> "Begin", tx |-> 0, ok |-> FALSE]),
          ctx |-> ctx, err |-> {errBeginTx, ErrConnDone}]
    ELSE [heap |-> Append(h, [tx |-> Len(h) + 1, level |-> 1]),
          log |-> Append(log, [op |-> "Begin", tx |-> Len(h) + 1, ok |-> TRUE]),
          ctx |-> Len(h) + 1, err |-> ErrNil]

\* End that treats a failed-to-begin error as any other error.
EndIgnoresBeginError(h, log, ctx, err, dbOk) ==
    IF getScopeValue(ctx) = 0
    THEN [heap |-> h, log |-> log, err |-> ErrNil]
    ELSE IF h[getScopeValue(ctx)].level > 1
    THEN [heap |-> [h EXCEPT ![getScopeValue(ctx)].level = DecLevel(@)], log |-> log,
          err |-> ErrNil]
    ELSE IF err # ErrNil
    THEN [heap |-> h,
          log |-> Append(log, [op |-> "Rollback", tx |-> h[getScopeValue(ctx)].tx, ok |-> dbOk]),
          err |-> IF dbOk THEN err
                  ELSE err \cup {"cannot rollback transaction", ErrConnDone}]
    ELSE [heap |-> h,
          log |-> Append(log, [op |-> "Commit", tx |-> h[getScopeValue(ctx)].tx, ok |-> dbOk]),
          err |-> IF dbOk THEN ErrNil
                  ELSE {"cannot commit transaction", ErrConnDone}]

\* End that rolls the transaction back as soon as any level is given an error.
EndRollsBackAtAnyLevel(h, log, ctx, err, dbOk) ==
    IF ErrorsIs(err, errBeginTx)
    THEN [heap |-> h, log |-> log, err |-> ErrNil]
    ELSE IF getScopeValue(ctx) = 0
    THEN [heap |-> h, log |-> log, err |-> ErrNil]
    ELSE IF h[getScopeValue(ctx)].level > 1 /\ err = ErrNil
    THEN [heap |-> [h EXCEPT ![getScopeValue(ctx)].level = DecLevel(@)], log |-> log,
          err |-> ErrNil]
    ELSE IF err # ErrNil
    THEN [heap |-> h,
          log |-> Append(log, [op |-> "Rollback", tx |-> h[getScopeValue(ctx)].tx, ok |-> dbOk]),
          err |-> IF dbOk THEN err
                  ELSE err \cup {"cannot rollback transaction", ErrConnDone}]
    ELSE [heap |-> h,
          log |-> Append(log, [op |-> "Commit", tx |-> h[getScopeValue(ctx)].tx, ok |-> dbOk]),
          err |-> IF dbOk THEN ErrNil
                  ELSE {"cannot commit transaction", ErrConnDone}]

\* End, with dbOk telling whether the database can commit or roll back.
End(h, log, ctx, err, dbOk) ==
    IF ErrorsIs(err, errBeginTx)
    THEN [heap |-> h, log |-> log, err |-> ErrNil]
    ELSE IF getScopeValue(ctx) = 0
    THEN [heap |-> h, log |-> log, err |-> ErrNil]
    ELSE IF h[getScopeValue(ctx)].level > 1
    THEN [heap |-> [h EXCEPT ![getScopeValue(ctx)].level = DecLevel(@)], log |-> log,
          err |-> ErrNil]
    ELSE IF err # ErrNil
    THEN [heap |-> h,
          log |-> Append(log, [op |-> "Rollback", tx |-> h[getScopeValue(ctx)].tx, ok |-> dbOk]),
          err |-> IF dbOk THEN err
                  ELSE err \cup {"cannot rollback transaction", ErrConnDone}]
    ELSE [heap |-> h,
          log |-> Append(log, [op |-> "Commit", tx |-> h[getScopeValue(ctx)].tx, ok |-> dbOk]),
          err |-> IF dbOk THEN ErrNil
                  ELSE {"cannot commit transaction", ErrConnDone}]

\* stderrs.Join: the errors of both, nil when both are nil
errorsJoin(e1, e2) == e1 \cup e2

\* What recover() returns in a deferred call: nil when nothing panicked,
\* otherwise the value given to panic, an error or some other value.
RecoverNil       == [kind |-> "nil", err |-> ErrNil, v |-> ""]
PanicWithError(e) == [kind |-> "error", err |-> e, v |-> ""]
PanicWithOther(v) == [kind |-> "other", err |-> ErrNil, v |-> v]

\* errors.Errorf("panic: %v", r)
PanicAsError(r) == {"panic: " \o r.v}

\* A pointer to an error variable, or the nil pointer.
NilErrPtr     == [isNil |-> TRUE, val |-> ErrNil]
ErrPtr(err)   == [isNil |-> FALSE, val |-> err]

\* the err EndWithRecover hands to End: *errPtr joined with what it recovered
recovered(err, r) ==
    CASE r.kind = "nil"   -> err
      [] r.kind = "error" -> errorsJoin(err, r.err)
      [] r.kind = "other" -> errorsJoin(err, PanicAsError(r))

\* the tail of EndWithRecover: End with err, whose error, when not nil, is
\* joined with err and stored in *errPtr
endAndStore(e, errPtr, err, r) ==
    [heap |-> e.heap, log |-> e.log,
     errPtr |-> IF e.err # ErrNil THEN ErrPtr(errorsJoin(err, e.err))
                ELSE IF r.kind # "nil" THEN ErrPtr(err)
                ELSE errPtr,
     panic |-> NoPanic]

\* EndWithRecover run as a deferred call while r is the value recover()
\* returns: the heap, the log, the error variable and the panic it raises.
EndWithRecover(h, log, ctx, errPtr, r, dbOk) ==
    IF errPtr.isNil
    THEN [heap |-> h, log |-> log, errPtr |-> errPtr,
          panic |-> PanicValue("err pointer cannot be nil", <<>>)]
    ELSE endAndStore(End(h, log, ctx, recovered(errPtr.val, r), dbOk),
                     errPtr, recovered(errPtr.val, r), r)

\* The errors a caller hands to End: none, an error of the operation, or
\* the error a failed Begin (of this or of another scope) returned.
EndErrors == {ErrNil, {AnError}, {errBeginTx, ErrConnDone}}

LevelOf(h, ctx) == IF getScopeValue(ctx) = 0 THEN 0 ELSE h[getScopeValue(ctx)].level

BeginAttempts(log) == Cardinality({i \in DOMAIN log : log[i].op = "Begin"})

InitTx ==
    /\ builder = NewBuilder(<<>>)
    /\ params = NewParams(<<>>)
    /\ scopes = <<>>
    /\ idx = 0
    /\ tx = EmptyStatement
    /\ relTx = <<>>
    /\ pc = "tx"
    /\ panicVal = NoPanic
    /\ wArgs = NoArgs
    /\ wRes = NoResult
    /\ ParamsIdle /\ ORIdle /\ BuildIdle /\ TxIdle

\* An operation begins its scope on the context of the operation that
\* called it (Background at the top) and keeps the context Begin returned.
CallBegin ==
    /\ pc = "tx"
    /\ Len(ctxStack) < MaxDepth
    /\ LET ctx == IF ctxStack = <<>> THEN Background ELSE ctxStack[Len(ctxStack)]
       IN  /\ LevelOf(heap, ctx) < MaxDepth
           /\ getScopeValue(ctx) = 0 => BeginAttempts(dbLog) < MaxTx
           /\ \E dbOk \in BOOLEAN :
                 LET r == Begin(heap, dbLog, ctx, dbOk)
                 IN  /\ heap' = r.heap
                     /\ dbLog' = r.log
                     /\ ctxStack' = Append(ctxStack, r.ctx)
                     /\ ret' = [op |-> "Begin",
                                arg |-> [ctx |-> ctx, err |-> ErrNil,
                                         level |-> LevelOf(heap, ctx), logLen |-> Len(dbLog)],
                                res |-> [ctx |-> r.ctx, err |-> r.err]]
    /\ UNCHANGED <<params, pc, pipelineVars, params0, callerRef, orVars, buildVars>>

\* The innermost operation ends its scope on the context it kept.
CallEnd ==
    /\ pc = "tx"
    /\ ctxStack # <<>>
    /\ LET ctx == ctxStack[Len(ctxStack)]
       IN  \E err \in EndErrors, dbOk \in BOOLEAN :
             LET r == End(heap, dbLog, ctx, err, dbOk)
             IN  /\ heap' = r.heap
                 /\ dbLog' = r.log
                 /\ ctxStack' = SubSeq(ctxStack, 1, Len(ctxStack) - 1)
                 /\ ret' = [op |-> "End",
                            arg |-> [ctx |-> ctx, err |-> err,
                                     level |-> LevelOf(heap, ctx), logLen |-> Len(dbLog)],
                            res |-> [ctx |-> ctx, err |-> r.err]]
    /\ UNCHANGED <<params, pc, pipelineVars, params0, callerRef, orVars, buildVars>>

\* What the body of an operation panics with.
PanicPool ==
    {RecoverNil, PanicWithError({AnError}), PanicWithOther("test panic"),
     PanicWithError({errBeginTx, ErrConnDone})}

ErrPtrPool == {NilErrPtr} \cup {ErrPtr(e) : e \in EndErrors}

endWithRecoverStep(ctx, errPtr, r, res) ==
    /\ heap' = res.heap
    /\ dbLog' = res.log
    /\ ctxStack' = SubSeq(ctxStack, 1, Len(ctxStack) - 1)
    /\ ret' = [op |-> "EndWithRecover",
               arg |-> [ctx |-> ctx, err |-> errPtr.val, level |-> LevelOf(heap, ctx),
                        logLen |-> Len(dbLog), errPtr |-> errPtr, r |-> r],
               res |-> [ctx |-> ctx, err |-> res.errPtr.val, panic |-> res.panic]]

\* The innermost operation returns or panics, and its deferred
\* EndWithRecover runs on the context it kept.
CallEndWithRecover ==
    /\ pc = "tx"
    /\ ctxStack # <<>>
    /\ \E errPtr \in ErrPtrPool, r \in PanicPool, dbOk \in BOOLEAN :
          endWithRecoverStep(ctxStack[Len(ctxStack)], errPtr, r,
                             EndWithRecover(heap, dbLog, ctxStack[Len(ctxStack)],
                                            errPtr, r, dbOk))
    /\ UNCHANGED <<params, pc, pipelineVars, params0, callerRef, orVars, buildVars>>

NextTx == CallBegin \/ CallEnd \/ CallEndWithRecover

SpecTx == InitTx /\ [][NextTx]_vars

(***************************************************************************)
(* Where-clause assembly called on its own.                                *)
(***************************************************************************)
InitWhere ==
    /\ builder = NewBuilder(<<>>)
    /\ params = NewParams(<<>>)
    /\ scopes = <<>>
    /\ idx = 0
    /\ tx = EmptyStatement
    /\ relTx = <<>>
    /\ pc = "where"
    /\ panicVal = NoPanic
    /\ wArgs \in [fieldName : {"id", "name"}, operator : Operators, value : WhereValues]
    /\ wRes = NoResult
    /\ OtherIdle

CallBuildWhere ==
    /\ pc = "where"
    /\ wRes' = buildWhere(wArgs.fieldName, wArgs.operator, wArgs.value)
    /\ pc' = "whereDone"
    /\ UNCHANGED <<builder, params, scopes, idx, tx, relTx, panicVal, wArgs>>
    /\ UNCHANGED otherVars

NextWhere == CallBuildWhere

SpecWhere == InitWhere /\ [][NextWhere]_vars

(***************************************************************************)
(* A query.Params in the hands of its caller.  NewParams keeps the slice   *)
(* it is given and Params() returns that same slice, so the caller's       *)
(* slice, p.params and the slice Params() returned share one backing       *)
(* array: the field params.params is that array.  A write by the caller    *)
(* through its slice changes an element in place; it can change neither    *)
(* the length nor cachedFilter.                                            *)
(***************************************************************************)
ContainerPool ==
    {Filter("id", Scalar(1)), WithOP(Filter("id", Scalar(2)), GT), Filter("Name", Scalar(1)),
     OR(<<Filter("Name", Scalar(2))>>),
     Preload("Referer", <<Filter("id", Scalar(2))>>),
     WithHaving(GroupBy(<<"id">>), <<Filter("Name", Scalar(2))>>)}

\* What the caller stores into the slice it holds.
WritePool ==
    {Filter("id", Scalar(1)), Filter("Name", Scalar(1)), OR(<<Filter("Name", Scalar(2))>>)}

Kinds == {TypeFilter, TypeOR, TypePreload, TypeGroupBy, TypeOrderBy}

InitParams ==
    /\ builder = NewBuilder(<<>>)
    /\ params \in {NewParams(ps) : ps \in SeqsUpTo(ContainerPool, MaxParams)}
    /\ params0 = params
    /\ callerRef \in BOOLEAN     \* NewParams(ps...) on the caller's slice, or NewParams(a, b)
    /\ ret = NoCall
    /\ scopes = <<>>
    /\ idx = 0
    /\ tx = EmptyStatement
    /\ relTx = <<>>
    /\ pc = "params"
    /\ panicVal = NoPanic
    /\ wArgs = NoArgs
    /\ wRes = NoResult
    /\ ORIdle /\ BuildIdle /\ TxIdle

CallGet ==
    /\ pc = "params"
    /\ \E k \in Kinds : ret' = [op |-> "Get", arg |-> k, res |-> Get(params, k)]
    /\ UNCHANGED <<params, params0, callerRef, pc, pipelineVars, orVars, buildVars, txVars>>

CallGetFilter ==
    /\ pc = "params"
    /\ \E f \in FieldNames : ret' = [op |-> "GetFilter", arg |-> f, res |-> GetFilter(params, f)]
    /\ UNCHANGED <<params, params0, callerRef, pc, pipelineVars, orVars, buildVars, txVars>>

CallFilterGetter ==
    /\ pc = "params"
    /\ \E f \in FieldNames :
          ret' = [op |-> "FilterGetter", arg |-> f, res |-> CallGetter(FilterGetter(f), params)]
    /\ UNCHANGED <<params, params0, callerRef, pc, pipelineVars, orVars, buildVars, txVars>>

CallParams ==
    /\ pc = "params"
    /\ ret' = [op |-> "Params", arg |-> "", res |-> ParamsOf(params)]
    /\ callerRef' = TRUE
    /\ UNCHANGED <<params, params0, pc, pipelineVars, orVars, buildVars, txVars>>

\* The caller assigns to an element of the slice it holds: s[i] = e.
CallerWrite ==
    /\ pc = "params"
    /\ callerRef
    /\ \E i \in DOMAIN params.params, e \in WritePool :
          /\ e # params.params[i]
          /\ params' = [params EXCEPT !.params[i] = e]
    /\ ret' = NoCall
    /\ UNCHANGED <<params0, callerRef, pc, pipelineVars, orVars, buildVars, txVars>>

NextParams == CallGet \/ CallGetFilter \/ CallFilterGetter \/ CallParams \/ CallerWrite

SpecParams == InitParams /\ [][NextParams]_vars

(***************************************************************************)
(* query.OR called on a list of params.                                    *)
(***************************************************************************)
ORArgPool ==
    {Filter("id", Scalar(1)), Filter("id", Scalar(2)), WithOP(Filter("Name", NilValue), GT),
     GroupBy(<<"id">>), OrderBy("id", FALSE), OR(<<>>), OR(<<Filter("id", Scalar(1))>>),
     Preload("Referer", <<>>), WithHint("h")}

InitOR ==
    /\ builder = NewBuilder(<<>>)
    /\ params = NewParams(<<>>)
    /\ scopes = <<>>
    /\ idx = 0
    /\ tx = EmptyStatement
    /\ relTx = <<>>
    /\ pc = "or"
    /\ panicVal = NoPanic
    /\ wArgs = NoArgs
    /\ wRes = NoResult
    /\ ParamsIdle /\ BuildIdle /\ TxIdle
    /\ orArgs \in SeqsUpTo(ORArgPool, MaxOr)

CallOR ==
    /\ pc = "or"
    /\ ret' = [op |-> "OR", arg |-> "", res |-> ORChecked(orArgs)]
    /\ pc' = "orDone"
    /\ UNCHANGED <<params, params0, callerRef, pipelineVars, orVars, buildVars, txVars>>

NextOR == CallOR

SpecOR == InitOR /\ [][NextOR]_vars

(***************************************************************************)
(* Properties.                                                             *)
(***************************************************************************)
Range(q) == {q[i] : i \in DOMAIN q}

\* The k-th smallest element of a set of positions.
NthOf(S, k) == CHOOSE i \in S : Cardinality({j \in S : j <= i}) = k

Built == pc \in {"built", "done", "panicked"}

RegisteredIdx ==
    {i \in 1..Len(params.params) :
        ParamType(params.params[i]) \in DOMAIN builder.Registry}

\* C1: Build returns one scope per param whose kind has a handler in the
\* registry, in the relative order of params.Params(); params of a kind
\* without a handler are skipped, so the number of scopes is the number of
\* params of a registered kind.
C1_BuildOnePerRegistered ==
    Built =>
        /\ Len(scopes) = Cardinality(RegisteredIdx)
        /\ \A k \in 1..Len(scopes) :
               scopes[k].p = params.params[NthOf(RegisteredIdx, k)]

C1_Witness ==
    /\ pc = "built"
    /\ Len(params.params) = 2
    /\ ParamType(params.params[1]) \notin DOMAIN builder.Registry
    /\ ParamType(params.params[2]) \in DOMAIN builder.Registry
    /\ Len(scopes) = 1
    /\ scopes[1].p = params.params[2]

\* Whether the default lowering of filter f fails.
FilterFails(b, f) == ~buildWhere(getColName(b, f.Name), f.Operator, f.Value).ok

\* Whether the closure built for param p fails when it is run.
ParamFails(b, p) ==
    CASE p.go = "FilterParam" ->
             p.Name \notin DOMAIN b.CustomFilters /\ FilterFails(b, p)
      [] p.go = "ORParam" ->
             \E i \in 1..Len(p.Params) : FilterFails(b, p.Params[i])
      [] p.go = "GroupByParam" ->
             \E i \in 1..Len(p.Having) : FilterFails(b, p.Having[i])
      [] OTHER -> FALSE

\* The statement after the first k scopes of ss have run on a fresh one.
RECURSIVE RunPrefix(_, _, _)
RunPrefix(b, ss, k) ==
    IF k = 0 THEN EmptyStatement
    ELSE RunScope(b, ss[k], RunPrefix(b, ss, k - 1)).tx

C3_InvalidLockReported ==
    Built =>
        \A j \in 1..idx :
            (scopes[j].p.go = "WithLockParam"
                 /\ scopes[j].p.LockType # LockTypeForUpdate)
            => tx.err # ""

WhereIdx ==
    {i \in 1..Len(params.params) :
        params.params[i].go \in {"FilterParam", "ORParam"}}

\* The condition a top-level Filter or OR param contributes to the outer WHERE.
ExpectedChild(f, i) ==
    LET w == buildWhere(getColName(builder, f.Name), f.Operator, f.Value)
    IN  Cond(IF i = 1 THEN "AND" ELSE "OR", w.sql, w.val, <<>>)

ExpectedTerm(p) ==
    IF p.go = "ORParam"
    THEN Cond("AND", "", NilValue,
              [i \in 1..Len(p.Params) |-> ExpectedChild(p.Params[i], i)])
    ELSE IF p.Name \in DOMAIN builder.CustomFilters
         THEN Cond("AND", "first_name = ?", p.Value, <<>>)
         ELSE ExpectedChild(p, 1)

C5_CustomFilterOverrides ==
    (pc \in {"built", "done"} /\ idx >= 1 /\ scopes[idx].p.go = "FilterParam")
    => LET p    == scopes[idx].p
           last == tx.where[Len(tx.where)]
       IN  IF p.Name \in DOMAIN builder.CustomFilters
           THEN /\ scopes[idx] = [fn |-> builder.CustomFilters[p.Name],
                                  col |-> "", p |-> p]
                /\ last = Cond("AND", "first_name = ?", p.Value, <<>>)
           ELSE LET col == IF p.Name \in DOMAIN builder.FieldToColMap
                           THEN builder.FieldToColMap[p.Name] ELSE p.Name
                    w   == buildWhere(col, p.Operator, p.Value)
                IN  /\ scopes[idx] = [fn |-> "Filter", col |-> col, p |-> p]
                    /\ w.ok
                    /\ last = Cond("AND", w.sql, w.val, <<>>)

C5_Witness ==
    /\ pc = "done"
    /\ idx = 2
    /\ scopes[1].fn = "byFirstName"
    /\ scopes[1].p.Value = NilValue
    /\ scopes[2].fn = "Filter"
    /\ scopes[2].p.Name = "Name"
    /\ scopes[2].col = "name"
    /\ Len(tx.where) = 2
    /\ tx.where[2].sql = "name = ?"

WhereCalled == pc = "whereDone"

IsCollection(v) == v.k = "slice"

\* C6: for a collection of more than one element, where-clause assembly
\* returns "<col> IN (?)" under EQ and "<col> NOT IN (?)" under NEQ, bound to
\* the whole collection unchanged.
C6_InTemplate ==
    (/\ WhereCalled
     /\ IsCollection(wArgs.value)
     /\ Len(wArgs.value.c) > 1
     /\ wArgs.operator \in {EQ, NEQ})
    => /\ wRes.ok
       /\ wRes.sql = wArgs.fieldName \o
                         (IF wArgs.operator = EQ THEN " IN (?)" ELSE " NOT IN (?)")
       /\ wRes.val = wArgs.value

C6_Witness ==
    /\ WhereCalled
    /\ wArgs = [fieldName |-> "id", operator |-> NEQ, value |-> Slice(<<2, 1>>)]
    /\ wRes.ok
    /\ wRes.sql = "id NOT IN (?)"
    /\ wRes.val = Slice(<<2, 1>>)

\* C7: lowering the one-element collection [x] gives the template and bound
\* value of lowering the scalar x with the same operator: "<col> <op> ?"
\* bound to x, never an IN template.
C7_CollectionOfOne ==
    (/\ WhereCalled
     /\ IsCollection(wArgs.value)
     /\ Len(wArgs.value.c) = 1)
    => LET x == Scalar(wArgs.value.c[1])
       IN  /\ wRes.ok
           /\ wRes.val = x
           /\ wRes.sql = wArgs.fieldName \o " " \o operatorToString(wArgs.operator) \o " ?"
           /\ wRes = buildWhere(wArgs.fieldName, wArgs.operator, x)

C7_Witness ==
    /\ WhereCalled
    /\ wArgs = [fieldName |-> "id", operator |-> EQ, value |-> Slice(<<2>>)]
    /\ wRes.ok
    /\ wRes.sql = "id = ?"
    /\ wRes.val = Scalar(2)

C9_EmptyCollectionDescriptiveError ==
    (/\ WhereCalled
     /\ IsCollection(wArgs.value)
     /\ Len(wArgs.value.c) = 0)
    => /\ ~wRes.ok
       /\ wRes.sql = ""
       /\ wArgs.fieldName \in Range(wRes.panic.args)
       /\ OperatorString(wArgs.operator) \in Range(wRes.panic.args)

\* C9 amended: lowering an empty collection aborts and produces no
\* predicate; the abort is the runtime's index-out-of-range panic raised by
\* taking element 0, which names neither the field nor the operator.
C9_EmptyCollectionPanics ==
    (/\ WhereCalled
     /\ IsCollection(wArgs.value)
     /\ Len(wArgs.value.c) = 0)
    => /\ ~wRes.ok
       /\ wRes.sql = ""
       /\ wRes.val = NilValue
       /\ wRes.panic = PanicValue("reflect: slice index out of range", <<>>)

C9_Witness ==
    /\ WhereCalled
    /\ wArgs = [fieldName |-> "id", operator |-> EQ, value |-> Slice(<<>>)]
    /\ ~wRes.ok
    /\ wRes.panic.fmt = "reflect: slice index out of range"

\* The SQL token the claim gives for each defined operator.
SqlToken(op) ==
    CASE op = EQ  -> "="
      [] op = NEQ -> "<>"
      [] op = GT  -> ">"
      [] op = GTE -> ">="
      [] op = LT  -> "<"
      [] op = LTE -> "<="

\* C10: for a non-nil, non-collection value v, where-clause assembly returns
\* "<col> <tok> ?" bound to v itself, tok being "=", "<>", ">", ">=", "<",
\* "<=" for EQ, NEQ, GT, GTE, LT, LTE.
C10_ScalarTemplate ==
    (/\ WhereCalled
     /\ wArgs.value.k = "scalar"
     /\ wArgs.operator \in {EQ, NEQ, GT, GTE, LT, LTE})
    => /\ wRes.ok
       /\ wRes.sql = wArgs.fieldName \o " " \o SqlToken(wArgs.operator) \o " ?"
       /\ wRes.val = wArgs.value

C10_Witness ==
    /\ WhereCalled
    /\ wArgs = [fieldName |-> "name", operator |-> NEQ, value |-> Scalar(1)]
    /\ wRes.ok
    /\ wRes.sql = "name <> ?"
    /\ wRes.val = Scalar(1)

(***************************************************************************)
(* query.Params: Get, GetFilter, FilterGetter, Params.                     *)
(***************************************************************************)
\* C11: Get(k) returns exactly the params of kind k of the list, in the
\* list's order, as a non-nil slice, which is empty when none match
\* (the empty list included).
C11_GetSubsequenceOfKind ==
    ret.op = "Get" =>
        /\ ret.res.isNil = FALSE
        /\ ret.res.elems = SelectSeq(params.params, LAMBDA e : ParamType(e) = ret.arg)

C11_Witness ==
    /\ ret.op = "Get"
    /\ Len(params.params) = 2
    /\ Len(ret.res.elems) = 1

C11_WitnessNoneMatch ==
    /\ ret.op = "Get"
    /\ ret.res = EmptySlice

\* Positions of the top-level Filters named f in a list.
TopLevelNamed(ps, f) == {i \in DOMAIN ps : ParamType(ps[i]) = TypeFilter /\ ps[i].Name = f}

Max(S) == CHOOSE i \in S : \A j \in S : j <= i

\* Names of the filters nested in an OR, a Preload or a GroupBy's Having.
NestedNames(ps) ==
    UNION {IF ps[i].go \in {"ORParam", "PreloadParam"}
             THEN {q.Name : q \in Range(ps[i].Params)}
           ELSE IF ps[i].go = "GroupByParam"
             THEN {q.Name : q \in Range(ps[i].Having)}
           ELSE {} : i \in DOMAIN ps}

\* C12: on a Params as NewParams built it, GetFilter(f) and the accessor
\* FilterGetter(f) return the last top-level Filter named f and true when
\* there is one, and the zero Filter and false otherwise; a filter nested
\* in an OR, a Preload or a Having is not found.
C12_GetFilterLastTopLevel ==
    (ret.op \in {"GetFilter", "FilterGetter"} /\ params = params0) =>
        LET at == TopLevelNamed(params.params, ret.arg)
        IN  /\ ret.res.ok
            /\ at # {} => /\ ret.res.found
                          /\ ret.res.val = params.params[Max(at)]
            /\ at = {} => /\ ~ret.res.found
                          /\ ret.res.val = ZeroFilter

\* two top-level filters share the name asked for
C12_Witness ==
    /\ ret.op \in {"GetFilter", "FilterGetter"}
    /\ params = params0
    /\ Cardinality(TopLevelNamed(params.params, ret.arg)) = 2
    /\ ret.res.found

\* the name asked for is only that of a nested filter
C12_WitnessNested ==
    /\ ret.op = "FilterGetter"
    /\ params = params0
    /\ ret.arg \in NestedNames(params.params)
    /\ ~ret.res.found

\* Every entry of the filter index points at a Filter of that name.
IndexConsistent(p) ==
    \A f \in DOMAIN p.cachedFilter :
        LET e == p.params[p.cachedFilter[f]]
        IN  e.go = "FilterParam" /\ e.Name = f

\* C13 as stated: a Params is never mutated after NewParams returns: its
\* index stays consistent with its sequence and Params(), Get and GetFilter
\* keep returning what they returned at construction, whatever the caller
\* writes to the slice it passed in or got from Params().
C13_NeverMutatedAfterNewParams ==
    /\ IndexConsistent(params)
    /\ ParamsOf(params) = ParamsOf(params0)
    /\ \A k \in Kinds : Get(params, k) = Get(params0, k)
    /\ \A f \in FieldNames : GetFilter(params, f) = GetFilter(params0, f)

\* C13 amended: no method of Params writes it, and its length and filter
\* index never change; while no element has been overwritten the index is
\* consistent.  The sequence shares its storage with the caller's slice, so
\* once the caller holds that slice an element can be overwritten in place:
\* GetFilter(f) then still reads the position indexed at construction, and
\* returns the Filter now stored there or panics when it is not a Filter.
C13_MutableOnlyThroughCallerSlice ==
    /\ params.cachedFilter = params0.cachedFilter
    /\ Len(params.params) = Len(params0.params)
    /\ ~callerRef => params = params0
    /\ params = params0 => IndexConsistent(params)
    /\ (ret.op \in {"GetFilter", "FilterGetter"} /\ ret.arg \in DOMAIN params.cachedFilter) =>
          LET e == params.params[params.cachedFilter[ret.arg]]
          IN  IF e.go = "FilterParam"
              THEN ret.res = Found(e)
              ELSE ~ret.res.ok /\ ret.res.panic.args = <<e.go>>

\* the caller overwrote the indexed Filter with one of another name, and
\* GetFilter returned that one
C13_Witness ==
    /\ ret.op = "GetFilter"
    /\ params # params0
    /\ ret.res.found
    /\ ret.res.val.Name # ret.arg

\* the caller overwrote the indexed Filter with a param of another kind
C13_WitnessPanic ==
    /\ ret.op = "GetFilter"
    /\ ~ret.res.ok

(***************************************************************************)
(* query.OR                                                                *)
(***************************************************************************)
\* C14: OR(p1..pn) returns an ORParam holding p1..pn in the given order when
\* every pi is a Filter, with an empty non-nil list for n = 0; otherwise it
\* panics on the first pi that is not a Filter with an error that names
\* that param's kind, and returns no ORParam.
C14_ORHoldsFiltersOrFailsFast ==
    pc = "orDone" =>
        LET bad == {i \in DOMAIN orArgs : ParamType(orArgs[i]) # TypeFilter}
        IN  IF bad = {}
            THEN /\ ret.res.ok
                 /\ ParamType(ret.res.val) = TypeOR
                 /\ ret.res.val.Params = orArgs
                 /\ ~ret.res.nilParams
            ELSE /\ ~ret.res.ok
                 /\ ret.res.val = <<>>
                 /\ ret.res.panic =
                        PanicValue("OR only accept FilterParam but got %s",
                                   <<ParamType(orArgs[CHOOSE i \in bad : \A j \in bad : i <= j])>>)

\* a Filter followed by a param of another kind
C14_Witness ==
    /\ pc = "orDone"
    /\ Len(orArgs) = 2
    /\ ParamType(orArgs[1]) = TypeFilter
    /\ ParamType(orArgs[2]) = TypeGroupBy
    /\ ~ret.res.ok

C14_WitnessEmpty ==
    /\ pc = "orDone"
    /\ orArgs = <<>>
    /\ ret.res.ok

(***************************************************************************)
(* Preload                                                                 *)
(***************************************************************************)
\* The Preload param that decides the relation query of a name: the last one.
LastPreload(name) ==
    LET at == {i \in DOMAIN params.params :
                  params.params[i].go = "PreloadParam" /\ params.params[i].Name = name}
    IN  params.params[Max(at)]

PreloadNames ==
    {params.params[i].Name : i \in {j \in DOMAIN params.params : params.params[j].go = "PreloadParam"}}

WithJoin(rel, name) ==
    [rel EXCEPT !.where = Append(@, Cond("AND", name \o ".id = ?", ForeignKeys, <<>>))]

\* C15: once Find has run, a Preload without nested params is a relation
\* query with no condition but the join; a Preload with nested params is a
\* relation query on which exactly the scopes Build gives for the nested
\* params have run, in order; and the root statement is what the other
\* params alone produce: no nested scope has touched it.
C15_PreloadScopedToRelation ==
    pc = "done" =>
        /\ DOMAIN relTx = PreloadNames
        /\ \A n \in PreloadNames :
              LET nested == Build(builder, NewParams(LastPreload(n).Params))
              IN  /\ LastPreload(n).Params = <<>> => relTx[n] = WithJoin(EmptyStatement, n)
                  /\ relTx[n] = WithJoin(RunPrefix(builder, nested, Len(nested)), n)
        /\ LET others == SelectSeq(params.params, LAMBDA e : e.go # "PreloadParam")
               root   == Build(builder, NewParams(others))
           IN  [tx EXCEPT !.preloads = <<>>] = RunPrefix(builder, root, Len(root))

\* two nested filters, one renamed, and a root filter
C15_Witness ==
    /\ pc = "done"
    /\ \E n \in DOMAIN relTx : Len(relTx[n].where) = 3
    /\ Len(tx.where) = 1

C15_WitnessBare ==
    /\ pc = "done"
    /\ \E n \in DOMAIN relTx : Len(relTx[n].where) = 1

(***************************************************************************)
(* GroupBy                                                                 *)
(***************************************************************************)
TheGroupBy == params.params[Len(params.params)]

\* The columns of a group clause, written out from the last one backwards.
RECURSIVE CommaList(_)
CommaList(cols) ==
    IF Len(cols) = 0 THEN ""
    ELSE IF Len(cols) = 1 THEN cols[1]
    ELSE CommaList(SubSeq(cols, 1, Len(cols) - 1)) \o ", " \o cols[Len(cols)]

\* C16: once the scopes have run, the group clause is the renamed grouping
\* columns joined by ", " in the given order, followed by one space and the
\* option exactly when the option is not empty, and there is one HAVING
\* predicate per Having filter, in order, each the default predicate of
\* that filter on its renamed column.
C16_GroupByLowering ==
    pc = "done" =>
        LET g    == TheGroupBy
            cols == [i \in DOMAIN g.Names |-> getColName(builder, g.Names[i])]
        IN  /\ tx.group = <<IF g.Option = "" THEN CommaList(cols)
                            ELSE CommaList(cols) \o " " \o g.Option>>
            /\ tx.having = [i \in DOMAIN g.Having |->
                   LET w == buildWhere(getColName(builder, g.Having[i].Name),
                                       g.Having[i].Operator, g.Having[i].Value)
                   IN  Cond("AND", w.sql, w.val, <<>>)]
            /\ Len(tx.where) = Len(params.params) - 1

\* two columns, one renamed, an option and two Having filters
C16_Witness ==
    /\ pc = "done"
    /\ tx.group = <<"id, name WITH ROLLUP">>
    /\ Len(tx.having) = 2

C16_WitnessNoOption ==
    /\ pc = "done"
    /\ tx.group = <<"name, id">>
    /\ Len(tx.having) = 1

(***************************************************************************)
(* WithHint                                                                *)
(***************************************************************************)
\* C17: Build of a Params that contains WithHint(text) returns a scope for
\* the hint param, one that hands text to the backend's hint clause: the
\* hint is not dropped.
C17_HintNotDropped ==
    Built =>
        \A i \in DOMAIN params.params :
            params.params[i].go = "WithHintParam" =>
                \E j \in DOMAIN scopes : scopes[j].p = params.params[i]

(***************************************************************************)
(* Concurrent Build                                                        *)
(***************************************************************************)
\* C18: no step of concurrently running Build calls writes the builder
\* (registry, rename table, custom filters) or the Params, and whatever the
\* interleaving, a call that returns returns the scopes a lone Build of the
\* same Params returns.
C18_ConcurrentBuildReadOnly ==
    [][/\ builder' = builder
       /\ params' = params
       /\ \A g \in Goroutines :
             calls'[g].pc = "returned" => calls'[g].scopes = Build(builder, params)]_vars

\* one call has returned its two scopes while another is in the middle of its loop
C18_Witness ==
    /\ pc = "conc"
    /\ \E g, h \in Goroutines :
          /\ calls[g].pc = "returned"
          /\ Len(calls[g].scopes) = 2
          /\ calls[h].pc = "loop"
          /\ calls[h].i = 2

(***************************************************************************)
(* TransactionScope: Begin and End                                         *)
(***************************************************************************)
\* The Commit and Rollback requests the database received for transaction t.
Finishes(t) == {i \in DOMAIN dbLog : dbLog[i].op \in {"Commit", "Rollback"} /\ dbLog[i].tx = t}

AllBeginsSucceeded == \A i \in DOMAIN dbLog : dbLog[i].op = "Begin" => dbLog[i].ok

\* C19: when every Begin of a well-nested run succeeded, an End at a
\* nesting level above 1 only decrements the level, returns nil and asks
\* the database for nothing, and once every Begin has been matched by its
\* End exactly one Commit or Rollback has been issued for the transaction.
C19_OnlyOutermostEndFinishes ==
    AllBeginsSucceeded =>
        /\ (ret.op = "End" /\ ret.arg.level > 1) =>
              /\ ret.res.err = ErrNil
              /\ Len(dbLog) = ret.arg.logLen
              /\ heap[ret.arg.ctx].level = ret.arg.level - 1
        /\ \A t \in DOMAIN heap : Cardinality(Finishes(t)) <= 1
        /\ ctxStack = <<>> => \A t \in DOMAIN heap : Cardinality(Finishes(t)) = 1

\* C20: Begin on a context that carries the scope's transaction asks the
\* database for nothing, raises the nesting level by one and returns the
\* same context without error; Begin on a context that carries none asks
\* the database to begin exactly one transaction and, when the database
\* does, stores it at level 1 and returns a new context that carries it.
C20_BeginNestsOrStartsOne ==
    ret.op = "Begin" =>
        IF getScopeValue(ret.arg.ctx) # 0
        THEN /\ Len(dbLog) = ret.arg.logLen
             /\ heap[getScopeValue(ret.arg.ctx)].level = ret.arg.level + 1
             /\ ret.res.ctx = ret.arg.ctx
             /\ ret.res.err = ErrNil
        ELSE /\ Len(dbLog) = ret.arg.logLen + 1
             /\ dbLog[Len(dbLog)].op = "Begin"
             /\ (ret.res.err = ErrNil) = dbLog[Len(dbLog)].ok
             /\ ret.res.err = ErrNil =>
                   /\ ret.res.ctx # ret.arg.ctx
                   /\ getScopeValue(ret.res.ctx) = Len(heap)
                   /\ heap[Len(heap)] = [tx |-> dbLog[Len(dbLog)].tx, level |-> 1]
                   /\ \A p \in 1..(Len(heap) - 1) : heap[p].tx # heap[Len(heap)].tx

\* a third-level Begin on a context that carries the transaction
C20_Witness ==
    /\ ret.op = "Begin"
    /\ getScopeValue(ret.arg.ctx) # 0
    /\ ret.arg.level = 2
    /\ BeginAttempts(dbLog) = 1

C20_WitnessNew ==
    /\ ret.op = "Begin"
    /\ ret.arg.ctx = Background
    /\ ret.res.ctx # Background

(***************************************************************************)
(* TransactionScope: the outermost End                                     *)
(***************************************************************************)
\* The request End added to the database log, when it added one.
LastRequest == dbLog[Len(dbLog)]

\* C21: an End at nesting level 1 that is given a non-nil error asks the
\* database for one Rollback of the transaction and returns an error that
\* contains the given one, with "cannot rollback transaction" joined to it
\* exactly when the Rollback fails; given nil it asks for one Commit and
\* returns nil, or "cannot commit transaction" when the Commit fails.
C21_OutermostEndRollsBackOrCommits ==
    (ret.op = "End" /\ ret.arg.level = 1) =>
        /\ Len(dbLog) = ret.arg.logLen + 1
        /\ LastRequest.tx = heap[getScopeValue(ret.arg.ctx)].tx
        /\ IF ret.arg.err # ErrNil
           THEN /\ LastRequest.op = "Rollback"
                /\ ret.arg.err \subseteq ret.res.err
                /\ ("cannot rollback transaction" \in ret.res.err) = ~LastRequest.ok
           ELSE /\ LastRequest.op = "Commit"
                /\ LastRequest.ok => ret.res.err = ErrNil
                /\ ~LastRequest.ok => "cannot commit transaction" \in ret.res.err

(***************************************************************************)
(* TransactionScope: EndWithRecover                                        *)
(***************************************************************************)
\* The error a recovered panic value stands for.
ErrorOfPanic(r) == IF r.kind = "error" THEN r.err ELSE {"panic: " \o r.v}

\* C22: a deferred EndWithRecover with a nil errPtr panics with "err
\* pointer cannot be nil"; with a non-nil errPtr it does not panic, and
\* when the body panicked the error variable afterwards holds its previous
\* error joined with the panic (the value itself when it is an error,
\* "panic: <value>" otherwise), and a scope at nesting level 1 has been
\* asked to roll back, not to commit.
C22_EndWithRecoverRollsBackPanic ==
    ret.op = "EndWithRecover" =>
        IF ret.arg.errPtr.isNil
        THEN /\ ret.res.panic = PanicValue("err pointer cannot be nil", <<>>)
             /\ Len(dbLog) = ret.arg.logLen
        ELSE /\ ret.res.panic = NoPanic
             /\ ret.arg.r.kind # "nil" =>
                   /\ ret.arg.err \subseteq ret.res.err
                   /\ ErrorOfPanic(ret.arg.r) \subseteq ret.res.err
                   /\ ret.arg.level = 1 =>
                         /\ Len(dbLog) = ret.arg.logLen + 1
                         /\ LastRequest.op = "Rollback"
                         /\ LastRequest.tx = heap[getScopeValue(ret.arg.ctx)].tx

(***************************************************************************)
(* TransactionScope: a failed Begin, and the Ends that do nothing          *)
(***************************************************************************)
SuccessfulBegins == {i \in DOMAIN dbLog : dbLog[i].op = "Begin" /\ dbLog[i].ok}

C23_WitnessLiveTx ==
    /\ ret.op = "End"
    /\ ret.arg.level = 1
    /\ ErrorsIs(ret.arg.err, errBeginTx)

C23_WitnessFailedBegin ==
    /\ ret.op = "Begin"
    /\ ret.res.err # ErrNil
    /\ ret.res.ctx = Background

(***************************************************************************)
(* gormstore.Store.Get: Build, run the scopes on a statement for the DTO's *)
(* table, First(&dto), convert.  The database answers First with a row,    *)
(* with gorm.ErrRecordNotFound or with another error.                      *)
(***************************************************************************)
ErrRecordNotFound == "record not found"

ZeroDTO    == [go |-> "UserDTO", ID |-> 0, Name |-> ""]
UserRow    == [go |-> "UserDTO", ID |-> 1, Name |-> "user_name"]
ZeroEntity == [go |-> "User", ID |-> 0, Name |-> ""]

\* Converter.ToEntity: the DTO's fields copied into a new Entity
ToEntity(dto) == [go |-> "User", ID |-> dto.ID, Name |-> dto.Name]

ExecOutcomes ==
    {[err |-> ErrNil, row |-> UserRow],
     [err |-> {ErrRecordNotFound}, row |-> ZeroDTO],
     [err |-> {ErrConnDone}, row |-> ZeroDTO]}

\* the ScopeBuilder gormstore.New makes when none is given
StoreBuilder == NewBuilder(<<WithFieldToColMap(FieldToCol)>>)

\* db.Scopes(scopes...).First(&dto): r is what running the scopes gave, out
\* what the database answers; an error a scope added to the statement
\* keeps the query from being sent.
First(r, out) ==
    IF ~r.ok THEN [panic |-> r.panic, err |-> ErrNil, row |-> ZeroDTO]
    ELSE IF r.tx.err # "" THEN [panic |-> NoPanic, err |-> {r.tx.err}, row |-> ZeroDTO]
    ELSE [panic |-> NoPanic, err |-> out.err, row |-> out.row]

\* what Get returns for the result f of First
getReturn(f) ==
    IF f.panic # NoPanic
    THEN [panic |-> f.panic, entity |-> ZeroEntity, err |-> ErrNil]
    ELSE IF f.err # ErrNil
    THEN [panic |-> NoPanic, entity |-> ZeroEntity, err |-> ErrNil]
    ELSE [panic |-> NoPanic, entity |-> ToEntity(f.row), err |-> ErrNil]

StoreGet(b, ps, out) ==
    getReturn(First(applyConds(b, Build(b, NewParams(ps)), 1, EmptyStatement), out))

GetPool ==
    {Filter("id", Scalar(1)), Filter("Name", NilValue), OrderBy("Name", TRUE),
     WithLock(LockTypeForUpdate), WithLock(InvalidLockType)}

InitGet ==
    /\ builder = StoreBuilder
    /\ params \in {NewParams(ps) : ps \in SeqsUpTo(GetPool, MaxParams)}
    /\ scopes = <<>>
    /\ idx = 0
    /\ tx = EmptyStatement
    /\ relTx = <<>>
    /\ pc = "get"
    /\ panicVal = NoPanic
    /\ wArgs = NoArgs
    /\ wRes = NoResult
    /\ OtherIdle

CallStoreGet ==
    /\ pc = "get"
    /\ \E out \in ExecOutcomes :
          ret' = [op |-> "Store.Get",
                  arg |-> [params |-> ParamsOf(params), out |-> out],
                  res |-> StoreGet(builder, ParamsOf(params), out)]
    /\ pc' = "getDone"
    /\ UNCHANGED <<params, pipelineVars, params0, callerRef, orVars, buildVars, txVars>>

NextGet == CallStoreGet

SpecGet == InitGet /\ [][NextGet]_vars

HasInvalidLock(ps) ==
    \E i \in DOMAIN ps : ps[i].go = "WithLockParam" /\ ps[i].LockType = InvalidLockType

\* C24: whenever the query of a Get that returned has failed (the database
\* answered First with an error, or the params include WithLock with an
\* invalid lock type) Get returned the zero entity and a non-nil error: a
\* nil error comes only with the entity of the row the database returned.
C24_GetFailureReturnsError ==
    (ret.op = "Store.Get" /\ ret.res.panic = NoPanic) =>
        /\ (ret.arg.out.err # ErrNil \/ HasInvalidLock(ret.arg.params)) =>
              /\ ret.res.err # ErrNil
              /\ ret.res.entity = ZeroEntity
        /\ ret.res.err = ErrNil => ret.res.entity = ToEntity(ret.arg.out.row)

(***************************************************************************)
(* The value functions of package query called on their own: GroupBy and   *)
(* its withers, Filter and WithOP, Operator.String.  A constructor starts  *)
(* a chain, each wither is called on what the call before it returned;     *)
(* ret.arg.chain lists the withers called so far.                          *)
(***************************************************************************)
UInt8Max == 255

NamePool   == SeqsUpTo({"a", "b"}, MaxLen)
OptionPool == {"", "WITH ROLLUP"}
HavingArgs == SeqsUpTo({Filter("a", Scalar(1)), WithOP(Filter("b", Scalar(2)), GT)}, MaxOr)

InitValues ==
    /\ builder = NewBuilder(<<>>)
    /\ params = NewParams(<<>>)
    /\ scopes = <<>>
    /\ idx = 0
    /\ tx = EmptyStatement
    /\ relTx = <<>>
    /\ pc = "values"
    /\ panicVal = NoPanic
    /\ wArgs = NoArgs
    /\ wRes = NoResult
    /\ OtherIdle

valuesUnchanged ==
    UNCHANGED <<params, pc, pipelineVars, params0, callerRef, orVars, buildVars, txVars>>

\* a constructor call: nothing was called before it
construct(op, v, res) ==
    /\ pc = "values"
    /\ ret = NoCall
    /\ ret' = [op |-> op,
               arg |-> [base |-> res, chain |-> <<>>, recv |-> res, recvAfter |-> res, v |-> v],
               res |-> res]
    /\ valuesUnchanged

\* a wither call on the value the call before it returned; the receiver is
\* passed by value and none of its slices is written
with(op, go, v, res) ==
    /\ pc = "values"
    /\ ret.op # ""
    /\ ret.op # "Operator.String"
    /\ ret.res.go = go
    /\ Len(ret.arg.chain) < MaxWithers
    /\ ret' = [op |-> op,
               arg |-> [base |-> ret.arg.base,
                        chain |-> Append(ret.arg.chain, [op |-> op, v |-> v]),
                        recv |-> ret.res, recvAfter |-> ret.res, v |-> v],
               res |-> res]
    /\ valuesUnchanged

CallGroupBy == \E names \in NamePool : construct("GroupBy", names, GroupBy(names))

CallWithOption ==
    \E option \in OptionPool :
        with("WithOption", "GroupByParam", option, WithOption(ret.res, option))

CallWithHaving ==
    \E having \in HavingArgs :
        with("WithHaving", "GroupByParam", having, WithHaving(ret.res, having))

CallFilter ==
    \E fieldName \in FieldNames, value \in WhereValues :
        construct("Filter", [fieldName |-> fieldName, value |-> value],
                  Filter(fieldName, value))

CallWithOP ==
    \E op \in Operators : with("WithOP", "FilterParam", op, WithOP(ret.res, op))

CallOperatorString ==
    /\ pc = "values"
    /\ ret = NoCall
    /\ \E o \in 0..UInt8Max :
          ret' = [op |-> "Operator.String", arg |-> [o |-> o], res |-> OperatorString(o)]
    /\ valuesUnchanged

NextValues ==
    \/ CallGroupBy \/ CallWithOption \/ CallWithHaving
    \/ CallFilter \/ CallWithOP
    \/ CallOperatorString

SpecValues == InitValues /\ [][NextValues]_vars

\* C25: WithOption returns a GroupByParam with the new option and the
\* receiver's names and having conditions, WithHaving one with the new
\* having conditions and the receiver's names and option, both leave the
\* receiver as it was, and after WithHaving(h) and WithOption(o) in either
\* order the param groups by the constructor's names with option o and
\* having h.
C25_GroupByWithersPreserve ==
    /\ ret.op = "WithOption" =>
          /\ ret.res.Option = ret.arg.v
          /\ ret.res.Names = ret.arg.recv.Names
          /\ ret.res.Having = ret.arg.recv.Having
          /\ ret.arg.recvAfter = ret.arg.recv
    /\ ret.op = "WithHaving" =>
          /\ ret.res.Having = ret.arg.v
          /\ ret.res.Names = ret.arg.recv.Names
          /\ ret.res.Option = ret.arg.recv.Option
          /\ ret.arg.recvAfter = ret.arg.recv
    /\ (/\ ret.op \in {"WithOption", "WithHaving"}
        /\ Len(ret.arg.chain) = 2
        /\ ret.arg.chain[1].op # ret.arg.chain[2].op) =>
          \A i, j \in 1..2 :
              (ret.arg.chain[i].op = "WithHaving" /\ ret.arg.chain[j].op = "WithOption") =>
                  ret.res = [go |-> "GroupByParam", Names |-> ret.arg.base.Names,
                             Option |-> ret.arg.chain[j].v, Having |-> ret.arg.chain[i].v]

\* C26: Filter(f, v) is the filter on f with operator EQ and value v;
\* WithOP(op) returns a filter with the receiver's field and value and the
\* operator op and leaves the receiver as it was; after several WithOP
\* calls the filter is the constructor's with the operator of the last.
C26_WithOPSetsOnlyOperator ==
    /\ ret.op = "Filter" =>
          ret.res = [go |-> "FilterParam", Name |-> ret.arg.v.fieldName,
                     Operator |-> EQ, Value |-> ret.arg.v.value]
    /\ ret.op = "WithOP" =>
          /\ ret.res.Name = ret.arg.recv.Name
          /\ ret.res.Value = ret.arg.recv.Value
          /\ ret.res.Operator = ret.arg.v
          /\ ret.arg.recvAfter = ret.arg.recv
          /\ ret.res = [ret.arg.base EXCEPT !.Operator = ret.arg.chain[Len(ret.arg.chain)].v]

\* WithOP(GT).WithOP(LTE) on a filter with a collection value
C26_Witness ==
    /\ ret.op = "WithOP"
    /\ Len(ret.arg.chain) = 2
    /\ ret.arg.chain[1].v = GT
    /\ ret.arg.chain[2].v = LTE
    /\ ret.arg.base.Value.k = "slice"

C26_WitnessFilter ==
    /\ ret.op = "Filter"
    /\ ret.arg.v.value = NilValue

\* C27: Operator.String returns "EQ", "NEQ", "GT", "GTE", "LT", "LTE" for
\* the operators 0..5 and, for every other value n of the uint8, the text
\* "UNKNOWN(n)" with n in decimal.
C27_OperatorStringNamesUnknownValue ==
    ret.op = "Operator.String" =>
        ret.res = CASE ret.arg.o = EQ  -> "EQ"
                    [] ret.arg.o = NEQ -> "NEQ"
                    [] ret.arg.o = GT  -> "GT"
                    [] ret.arg.o = GTE -> "GTE"
                    [] ret.arg.o = LT  -> "LT"
                    [] ret.arg.o = LTE -> "LTE"
                    [] OTHER -> "UNKNOWN(" \o ToString(ret.arg.o) \o ")"

(***************************************************************************)
(* The pipeline on Params whose filters sit at the top level, in an OR     *)
(* group and in the Having of a GroupBy.                                   *)
(***************************************************************************)
NestedFilterPool ==
    {Filter("tag", Scalar(1)),
     OR(<<Filter("tag", Scalar(2))>>),
     OR(<<Filter("Name", Scalar(1)), WithOP(Filter("tag", Scalar(2)), GT)>>),
     WithHaving(GroupBy(<<"Name">>), <<Filter("tag", Scalar(2))>>),
     WithHaving(GroupBy(<<"id">>),
                <<WithOP(Filter("Name", Scalar(1)), GT), Filter("tag", LongSlice)>>)}

InitNested ==
    /\ builder \in Builders
    /\ params \in {NewParams(ps) : ps \in SeqsUpTo(NestedFilterPool, MaxParams)}
    /\ scopes = <<>>
    /\ idx = 0
    /\ tx = EmptyStatement
    /\ relTx = <<>>
    /\ pc = "ready"
    /\ panicVal = NoPanic
    /\ wArgs = NoArgs
    /\ wRes = NoResult
    /\ OtherIdle

SpecNested == InitNested /\ [][Next]_vars

\* The default predicate of filter f on its renamed column.
DefaultPredicate(f) == buildWhere(getColName(builder, f.Name), f.Operator, f.Value)

\* The scope that ran last and the conditions it added.
LastScope  == scopes[idx]
LastWhere  == tx.where[Len(tx.where)]
LastHaving(n) == SubSeq(tx.having, Len(tx.having) - n + 1, Len(tx.having))

\* C28: when a scope has run, a top-level Filter on a field with a custom
\* override has added the override's condition, while every child of an
\* OR group and every Having filter of a GroupBy has added the default
\* predicate on its renamed column, whether or not its field has a custom
\* override.
C28_CustomFilterOnlyAtTopLevel ==
    (pc \in {"built", "done"} /\ idx >= 1) =>
        /\ (LastScope.p.go = "FilterParam"
                /\ LastScope.p.Name \in DOMAIN builder.CustomFilters) =>
              LastWhere = Cond("AND", "first_name = ?", LastScope.p.Value, <<>>)
        /\ (LastScope.p.go = "ORParam" /\ Len(LastScope.p.Params) >= 1) =>
              /\ Len(LastWhere.sub) = Len(LastScope.p.Params)
              /\ \A i \in DOMAIN LastScope.p.Params :
                    /\ LastWhere.sub[i].sql = DefaultPredicate(LastScope.p.Params[i]).sql
                    /\ LastWhere.sub[i].val = DefaultPredicate(LastScope.p.Params[i]).val
                    /\ LastWhere.sub[i].sql # "first_name = ?"
        /\ LastScope.p.go = "GroupByParam" =>
              /\ Len(tx.having) >= Len(LastScope.p.Having)
              /\ \A i \in DOMAIN LastScope.p.Having :
                    /\ LastHaving(Len(LastScope.p.Having))[i].sql
                          = DefaultPredicate(LastScope.p.Having[i]).sql
                    /\ LastHaving(Len(LastScope.p.Having))[i].val
                          = DefaultPredicate(LastScope.p.Having[i]).val
                    /\ LastHaving(Len(LastScope.p.Having))[i].sql # "first_name = ?"

\* with an override registered for "tag": a Having filter on "tag" has just
\* been lowered after a top-level filter on "tag"
C28_Witness ==
    /\ pc = "done"
    /\ "tag" \in DOMAIN builder.CustomFilters
    /\ Len(params.params) = 2
    /\ params.params[1] = Filter("tag", Scalar(1))
    /\ LastScope.p.go = "GroupByParam"
    /\ \E i \in DOMAIN LastScope.p.Having : LastScope.p.Having[i].Name = "tag"
    /\ tx.where = <<Cond("AND", "first_name = ?", Scalar(1), <<>>)>>

\* with an override registered for "tag": an OR group with a child on "tag"
C28_WitnessOR ==
    /\ pc = "done"
    /\ idx >= 1
    /\ "tag" \in DOMAIN builder.CustomFilters
    /\ LastScope.p.go = "ORParam"
    /\ Len(LastScope.p.Params) = 2
    /\ LastScope.p.Params[2].Name = "tag"

(***************************************************************************)
(* TransactionScope: the inner Ends                                        *)
(***************************************************************************)
\* C29: an End at a nesting level above 1 returns nil, asks the database
\* for nothing and leaves the transaction with no Commit or Rollback,
\* whatever error it is given; a Commit or Rollback is asked for only by
\* an End at level 1, a Commit only when that End is given nil and a
\* Rollback only when it is given an error.
C29_InnerEndLeavesTransactionOpen ==
    ret.op = "End" =>
        /\ ret.arg.level > 1 =>
              /\ ret.res.err = ErrNil
              /\ Len(dbLog) = ret.arg.logLen
              /\ Finishes(heap[getScopeValue(ret.arg.ctx)].tx) = {}
        /\ Len(dbLog) > ret.arg.logLen =>
              /\ ret.arg.level = 1
              /\ Len(dbLog) = ret.arg.logLen + 1
              /\ LastRequest.op = IF ret.arg.err = ErrNil THEN "Commit" ELSE "Rollback"

\* an inner End has just been given an error of the operation
C29_Witness ==
    /\ ret.op = "End"
    /\ ret.arg.level = 2
    /\ ret.arg.err = {AnError}
    /\ Len(ctxStack) = 1

\* the End at level 1, given nil, has asked for the Commit
C29_WitnessCommit ==
    /\ ret.op = "End"
    /\ ret.arg.level = 1
    /\ ret.arg.err = ErrNil
    /\ LastRequest.op = "Commit"
    /\ ctxStack = <<>>

(***************************************************************************)
(* Goroutines sharing one transaction context.  The operation begins the   *)
(* transaction, starts the goroutines on the context Begin returned, waits *)
(* for them and ends the scope.  Each goroutine runs Begin and then End    *)
(* on the shared context; scopeVal.level is read and written without      *)
(* synchronisation, so level++ and level-- are a load and a later store,   *)
(* and the test level > 1 is a load of its own.                            *)
(***************************************************************************)
SharedCtx == ctxStack[1]

SharedLevel == heap[getScopeValue(SharedCtx)].level

GoIdle == [pc |-> "idle", tmp |-> 0]

AllDone == \A g \in Goroutines : calls[g].pc = "done"

InitTxConc ==
    /\ builder = NewBuilder(<<>>)
    /\ params = NewParams(<<>>)
    /\ scopes = <<>>
    /\ idx = 0
    /\ tx = EmptyStatement
    /\ relTx = <<>>
    /\ pc = "txconc"
    /\ panicVal = NoPanic
    /\ wArgs = NoArgs
    /\ wRes = NoResult
    /\ ParamsIdle /\ ORIdle /\ TxIdle
    /\ calls = [g \in Goroutines |-> GoIdle]

txConcUnchanged == UNCHANGED <<params, pc, pipelineVars, paramsVars, orVars>>

\* r is what Begin returned: on success the goroutines are started on r.ctx
startGoroutines(r) ==
    /\ heap' = r.heap
    /\ dbLog' = r.log
    /\ IF r.err = ErrNil
       THEN /\ ctxStack' = <<r.ctx>>
            /\ calls' = [g \in Goroutines |-> [pc |-> "begin", tmp |-> 0]]
       ELSE UNCHANGED <<ctxStack, calls>>

OperationBegin ==
    /\ pc = "txconc"
    /\ dbLog = <<>>
    /\ \E dbOk \in BOOLEAN : startGoroutines(Begin(heap, dbLog, Background, dbOk))
    /\ txConcUnchanged

\* Begin, scopeVal != nil: the load of scopeVal.level++
GoBeginLoad(g) ==
    /\ pc = "txconc"
    /\ calls[g].pc = "begin"
    /\ calls' = [calls EXCEPT ![g] = [pc |-> "beginStore", tmp |-> SharedLevel]]
    /\ UNCHANGED txVars
    /\ txConcUnchanged

\* the store of scopeVal.level++; Begin returns ctx, nil
GoBeginStore(g) ==
    /\ pc = "txconc"
    /\ calls[g].pc = "beginStore"
    /\ heap' = [heap EXCEPT ![getScopeValue(SharedCtx)].level = IncLevel(calls[g].tmp)]
    /\ calls' = [calls EXCEPT ![g] = [pc |-> "end", tmp |-> 0]]
    /\ UNCHANGED <<dbLog, ctxStack>>
    /\ txConcUnchanged

\* End: the test scopeVal.level > 1; when it fails End rolls back or commits
GoEndTest(g) ==
    /\ pc = "txconc"
    /\ calls[g].pc = "end"
    /\ IF SharedLevel > 1
       THEN /\ calls' = [calls EXCEPT ![g] = [pc |-> "endLoad", tmp |-> 0]]
            /\ UNCHANGED txVars
       ELSE /\ \E err \in {ErrNil, {AnError}}, dbOk \in BOOLEAN :
                  dbLog' = End(heap, dbLog, SharedCtx, err, dbOk).log
            /\ calls' = [calls EXCEPT ![g] = [pc |-> "done", tmp |-> 0]]
            /\ UNCHANGED <<heap, ctxStack>>
    /\ txConcUnchanged

\* the load of scopeVal.level--
GoEndLoad(g) ==
    /\ pc = "txconc"
    /\ calls[g].pc = "endLoad"
    /\ calls' = [calls EXCEPT ![g] = [pc |-> "endStore", tmp |-> SharedLevel]]
    /\ UNCHANGED txVars
    /\ txConcUnchanged

\* the store of scopeVal.level--; End returns nil
GoEndStore(g) ==
    /\ pc = "txconc"
    /\ calls[g].pc = "endStore"
    /\ heap' = [heap EXCEPT ![getScopeValue(SharedCtx)].level = DecLevel(calls[g].tmp)]
    /\ calls' = [calls EXCEPT ![g] = [pc |-> "done", tmp |-> 0]]
    /\ UNCHANGED <<dbLog, ctxStack>>
    /\ txConcUnchanged

\* r is what the operation's End returned
operationEnded(r) ==
    /\ heap' = r.heap
    /\ dbLog' = r.log
    /\ ctxStack' = <<>>
    /\ UNCHANGED calls

\* the operation has waited for its goroutines and ends its scope
OperationEnd ==
    /\ pc = "txconc"
    /\ ctxStack # <<>>
    /\ AllDone
    /\ \E err \in {ErrNil, {AnError}}, dbOk \in BOOLEAN :
          operationEnded(End(heap, dbLog, SharedCtx, err, dbOk))
    /\ txConcUnchanged

NextTxConc ==
    \/ OperationBegin
    \/ \E g \in Goroutines :
          GoBeginLoad(g) \/ GoBeginStore(g) \/ GoEndTest(g) \/ GoEndLoad(g) \/ GoEndStore(g)
    \/ OperationEnd

SpecTxConc == InitTxConc /\ [][NextTxConc]_vars

\* C30: while a goroutine is still inside its Begin/End pair no Commit or
\* Rollback has been asked for; when all have finished the nesting level
\* is 1 again, the value it had before them; and the operation's End that
\* follows asks for the transaction's one Commit or Rollback.
C30_ConcurrentNestingKeepsLevel ==
    heap # <<>> =>
        /\ (ctxStack # <<>> /\ ~AllDone) => Finishes(1) = {}
        /\ (ctxStack # <<>> /\ AllDone) =>
              /\ SharedLevel = 1
              /\ Finishes(1) = {}
        /\ ctxStack = <<>> => Cardinality(Finishes(1)) = 1
====
